---- MODULE Spec2Model ----
(***************************************************************************)
(* Claude Code Proxy: an OpenAI-style chat-completions front end for the   *)
(* `claude` command line agent.                                            *)
(*                                                                         *)
(* The repository holds several generations of the server.  Two of them    *)
(* are modelled here:                                                      *)
(*   "part_001"  src/unnamed/part_001 lines 1-394: handleChat, with the    *)
(*               inline <tool_call> micro-protocol (parseToolCalls,        *)
(*               sendOK, sendToolCallResponse);                            *)
(*   "server.js" src/server.js: handleChatCompletions, with persona and    *)
(*               dispatch-mode handling and no tool-call parsing.          *)
(* The variable `server` says which of the two programs is running.        *)
(*                                                                         *)
(* Text is modelled as a sequence of tokens; every token stands for the    *)
(* JavaScript string that is its value, and a text stands for the          *)
(* concatenation of its tokens.                                            *)
(***************************************************************************)
EXTENDS Integers, Sequences, FiniteSets, TLC

(***************************************************************************)
(* Bounds of the model.                                                    *)
(***************************************************************************)
\* longest agent reply, in tokens, that is enumerated token by token
MaxLen == 4
\* longest agent reply, in segments (a run of text or one delimited span)
MaxSegs == 4
\* number of requests the transport accepts
MaxReqs == 2
\* longest agent reply, in segments, when one request is served
MaxTurnSegs == 3
\* longest agent reply, in segments, when several requests are served
MaxReplySegs == 2
\* the greatest number of pieces of a user text
MaxUserLen == 3
\* the greatest number of segments of a user text
MaxUserSegs == 4
\* the greatest number of characters of a skill name that is enumerated
MaxNameLen == 3
\* the same, for the names of a catalog of two skills
MaxPairNameLen == 2
\* the greatest number of messages of a request
MaxMsgs == 5
\* the greatest number of pieces of a requested model name
MaxModelLen == 3
\* the greatest number of messages of a dispatched request
MaxDispatchMsgs == 2
\* the greatest number of messages of a request with long messages
MaxLongMsgs == 3
\* the greatest number of messages of a request to handleChat on its own
MaxChatMsgs == 2
\* the greatest number of tools of a request
MaxTools == 2

(***************************************************************************)
(* Program constants.                                                      *)
(***************************************************************************)
\* Math.floor(Date.now() / 1000)
MsPerSec == 1000

(***************************************************************************)
(* Tokens.                                                                 *)
(***************************************************************************)
OPEN == "<tool_call>"
CLOSE == "</tool_call>"
WS == " "
TXT == "hi"
\* a JSON object with a name and arguments
J_A == "{\"name\":\"A\",\"arguments\":{\"p\":1}}"
\* a JSON object with a name and no arguments
J_B == "{\"name\":\"B\"}"
\* a JSON object without a name
J_NONAME == "{\"arguments\":{}}"
\* not JSON
J_BAD == "{oops"

Tokens == {OPEN, CLOSE, WS, TXT, J_A, J_B, J_NONAME, J_BAD}

\* the sequences over S of length at most n
SeqsUpTo(S, n) == UNION {[1..k -> S] : k \in 0..n}

RECURSIVE Flatten(_)
\* the concatenation of a sequence of texts
Flatten(ss) == IF ss = <<>> THEN <<>> ELSE Head(ss) \o Flatten(Tail(ss))

\* the pieces of a text
Pieces(t) == {t[i] : i \in 1..Len(t)}

\* the segments agent replies are built from, by kind
SegText(k) ==
  CASE k = "txt" -> <<TXT>>
    [] k = "ws" -> <<WS>>
    [] k = "a" -> <<OPEN, J_A, CLOSE>>
    [] k = "b" -> <<OPEN, WS, J_B, WS, CLOSE>>
    [] k = "bad" -> <<OPEN, J_BAD, CLOSE>>
    [] k = "noname" -> <<OPEN, J_NONAME, CLOSE>>

SegKinds == {"txt", "ws", "a", "b", "bad", "noname"}

\* the text of a sequence of segment kinds
SegsText(ks) == Flatten([i \in 1..Len(ks) |-> SegText(ks[i])])

(***************************************************************************)
(* String helpers of JavaScript, on token sequences.                       *)
(***************************************************************************)
RECURSIVE TrimStart(_)
TrimStart(t) == IF t # <<>> /\ Head(t) = WS THEN TrimStart(Tail(t)) ELSE t

RECURSIVE TrimEnd(_)
TrimEnd(t) ==
  IF t # <<>> /\ t[Len(t)] = WS THEN TrimEnd(SubSeq(t, 1, Len(t) - 1)) ELSE t

\* String.prototype.trim
Trim(t) == TrimEnd(TrimStart(t))

\* JSON.parse: the value, or the mark that it threw.  A text is JSON when,
\* leading and trailing whitespace apart, it is one JSON token.
JSONparse(t) ==
  LET s == Trim(t) IN
  CASE s = <<J_A>> -> [ok |-> TRUE, name |-> "A", arguments |-> "{\"p\":1}"]
    [] s = <<J_B>> -> [ok |-> TRUE, name |-> "B", arguments |-> ""]
    [] s = <<J_NONAME>> -> [ok |-> TRUE, name |-> "", arguments |-> "{}"]
    [] OTHER -> [ok |-> FALSE, name |-> "", arguments |-> ""]

(***************************************************************************)
(* parseToolCalls (src/unnamed/part_001:121-148).                          *)
(***************************************************************************)
\* the least index >= from of token tok in text, 0 when there is none
IndexFrom(text, tok, from) ==
  LET S == {i \in from..Len(text) : text[i] = tok}
  IN IF S = {} THEN 0 ELSE CHOOSE i \in S : \A j \in S : i <= j

\* /<tool_call>\s*([\s\S]*?)\s*<\/tool_call>/g applied at lastIndex: the
\* leftmost opening delimiter that has a closing delimiter after it, up to
\* the first such closing delimiter; found = FALSE when exec returns null.
ReExec(text, lastIndex) ==
  LET o == IndexFrom(text, OPEN, lastIndex)
      c == IF o = 0 THEN 0 ELSE IndexFrom(text, CLOSE, o + 1)
  IN IF c = 0
       THEN [found |-> FALSE, from |-> 0, to |-> 0, group |-> <<>>]
       ELSE [found |-> TRUE, from |-> o, to |-> c,
             group |-> Trim(SubSeq(text, o + 1, c - 1))]

\* the tool call pushed for a parsed span, with the counter already incremented
ToolCall(n, parsed) ==
  [id |-> <<"call_", n>>, type |-> "function",
   function |-> [name |-> parsed.name,
                 arguments |-> IF parsed.arguments = "" THEN "{}" ELSE parsed.arguments]]

RECURSIVE ScanToolCalls_break(_, _, _, _)
\* the scan as it would be if a span that does not parse ended the loop
ScanToolCalls_break(text, lastIndex, toolCalls, counter) ==
  LET m == ReExec(text, lastIndex) IN
  IF ~m.found THEN [toolCalls |-> toolCalls, counter |-> counter]
  ELSE LET parsed == JSONparse(m.group) IN
       IF parsed.ok /\ parsed.name # ""
         THEN ScanToolCalls_break(text, m.to + 1,
                                  Append(toolCalls, ToolCall(counter + 1, parsed)), counter + 1)
         ELSE [toolCalls |-> toolCalls, counter |-> counter]

RECURSIVE ScanToolCalls(_, _, _, _)
\* the while loop of parseToolCalls: toolCalls and callCounter after it
ScanToolCalls(text, lastIndex, toolCalls, counter) ==
  LET m == ReExec(text, lastIndex) IN
  IF ~m.found THEN [toolCalls |-> toolCalls, counter |-> counter]
  ELSE LET parsed == JSONparse(m.group) IN
       IF parsed.ok /\ parsed.name # ""
         THEN ScanToolCalls(text, m.to + 1,
                            Append(toolCalls, ToolCall(counter + 1, parsed)), counter + 1)
         ELSE ScanToolCalls(text, m.to + 1, toolCalls, counter)

RECURSIVE RemoveSpans(_, _)
\* text.replace(/<tool_call>[\s\S]*?<\/tool_call>/g, '')
RemoveSpans(text, lastIndex) ==
  LET m == ReExec(text, lastIndex) IN
  IF ~m.found THEN SubSeq(text, lastIndex, Len(text))
  ELSE SubSeq(text, lastIndex, m.from - 1) \o RemoveSpans(text, m.to + 1)

\* parseToolCalls as it would be with a counter of its own for every call
parseToolCalls_ownCounter(text, counter) ==
  LET s == ScanToolCalls(text, 1, <<>>, 0)
  IN [toolCalls |-> s.toolCalls,
      contentText |-> Trim(RemoveSpans(text, 1)),
      counter |-> counter + s.counter]

\* parseToolCalls(text) with callCounter = counter on entry
parseToolCalls(text, counter) ==
  LET s == ScanToolCalls(text, 1, <<>>, counter)
  IN [toolCalls |-> s.toolCalls,
      contentText |-> Trim(RemoveSpans(text, 1)),
      counter |-> s.counter]

(***************************************************************************)
(* Responses.  A response object `res` is the status and content type of   *)
(* writeHead, the sequence of bodies written, and whether end was called.  *)
(***************************************************************************)
NewRes == [status |-> 0, ctype |-> "", writes |-> <<>>, ended |-> FALSE]

\* res.writeHead(code, {'Content-Type': ctype})
writeHead(res, code, ctype) == [res EXCEPT !.status = code, !.ctype = ctype]

\* res.write(data)
write(res, data) == [res EXCEPT !.writes = Append(@, data)]

\* res.end()
end(res) == [res EXCEPT !.ended = TRUE]

\* `chatcmpl-${Date.now()}`
ChatId(t) == <<"chatcmpl-", t>>

\* Math.floor(Date.now() / 1000)
Created(t) == t \div MsPerSec

\* one `data: ${JSON.stringify(chunk)}\n\n` event of a stream
Chunk(id, t, delta, finish) ==
  [event |-> "data", id |-> id, object |-> "chat.completion.chunk", created |-> t,
   model |-> "claude-code", index |-> 0, delta |-> delta, finish_reason |-> finish]

\* the one JSON body of a completion that is not streamed
Completion(id, t, message, finish) ==
  [event |-> "json", id |-> id, object |-> "chat.completion", created |-> t,
   model |-> "claude-code", index |-> 0, message |-> message, finish_reason |-> finish]

\* 'data: [DONE]\n\n'
DoneEvent == [event |-> "[DONE]"]

\* the body of send(res, code, {error})
ErrorBody(msg) == [event |-> "json", error |-> msg]

\* the delta {}
EmptyDelta == [f \in {} |-> 0]

\* a JavaScript string value and null
Str(t) == [type |-> "string", text |-> t]
Null == [type |-> "null"]

\* send(res, code, obj) (src/unnamed/part_001:365-368)
send(res, code, msg) ==
  end(write(writeHead(res, code, "application/json"), ErrorBody(msg)))

\* sendOK as it would be if every chunk took its id from the clock anew
sendOK_idPerChunk(res, content, stream, tId, tCreated) ==
  IF res.ended THEN res
  ELSE LET id == ChatId(tId)
           t == Created(tCreated)
       IN IF stream
            THEN LET r0 == writeHead(res, 200, "text/event-stream")
                     r1 == write(r0, Chunk(id, t, [role |-> "assistant", content |-> Str(content)], "null"))
                     r2 == write(r1, Chunk(ChatId(tCreated), t, EmptyDelta, "stop"))
                     r3 == write(r2, DoneEvent)
                 IN end(r3)
            ELSE end(write(writeHead(res, 200, "application/json"),
                           Completion(id, t, [role |-> "assistant", content |-> Str(content)], "stop")))

\* sendOK(res, content, stream) (src/unnamed/part_001:316-331); tId and tCreated
\* are the two readings of Date.now()
sendOK(res, content, stream, tId, tCreated) ==
  IF res.ended THEN res
  ELSE LET id == ChatId(tId)
           t == Created(tCreated)
       IN IF stream
            THEN LET r0 == writeHead(res, 200, "text/event-stream")
                     r1 == write(r0, Chunk(id, t, [role |-> "assistant", content |-> Str(content)], "null"))
                     r2 == write(r1, Chunk(id, t, EmptyDelta, "stop"))
                     r3 == write(r2, DoneEvent)
                 IN end(r3)
            ELSE end(write(writeHead(res, 200, "application/json"),
                           Completion(id, t, [role |-> "assistant", content |-> Str(content)], "stop")))

RECURSIVE WriteToolCalls_indexFromCounter(_, _, _, _)
\* the loop as it would be if every chunk of a tool call took its index from
\* the number that callCounter gave the call
WriteToolCalls_indexFromCounter(res, id, t, toolCalls) ==
  IF toolCalls = <<>> THEN res
  ELSE WriteToolCalls_indexFromCounter(
         write(res, [Chunk(id, t, [tool_calls |-> <<Head(toolCalls)>>], "null")
                       EXCEPT !.index = Head(toolCalls).id[2]]),
         id, t, Tail(toolCalls))

RECURSIVE WriteToolCalls(_, _, _, _)
\* the loop `for (const tc of toolCalls) res.write(...)` of sendToolCallResponse
WriteToolCalls(res, id, t, toolCalls) ==
  IF toolCalls = <<>> THEN res
  ELSE WriteToolCalls(write(res, Chunk(id, t, [tool_calls |-> <<Head(toolCalls)>>], "null")),
                      id, t, Tail(toolCalls))

\* sendToolCallResponse as it would be with `content` in place of `content || null`
sendToolCallResponse_noNull(res, content, toolCalls, stream, tId, tCreated) ==
  IF res.ended THEN res
  ELSE LET id == ChatId(tId)
           t == Created(tCreated)
           message == [role |-> "assistant", content |-> Str(content), tool_calls |-> toolCalls]
       IN IF stream
            THEN LET r0 == writeHead(res, 200, "text/event-stream")
                     r1 == IF content # <<>>
                             THEN write(r0, Chunk(id, t, [role |-> "assistant", content |-> Str(content)], "null"))
                             ELSE r0
                     r2 == WriteToolCalls(r1, id, t, toolCalls)
                     r3 == write(r2, Chunk(id, t, EmptyDelta, "tool_calls"))
                     r4 == write(r3, DoneEvent)
                 IN end(r4)
            ELSE end(write(writeHead(res, 200, "application/json"),
                           Completion(id, t, message, "tool_calls")))

\* sendToolCallResponse as it would be without the test `if (content)` before
\* the content chunk
sendToolCallResponse_contentAlways(res, content, toolCalls, stream, tId, tCreated) ==
  IF res.ended THEN res
  ELSE LET id == ChatId(tId)
           t == Created(tCreated)
           message == [role |-> "assistant",
                       content |-> IF content # <<>> THEN Str(content) ELSE Null,
                       tool_calls |-> toolCalls]
       IN IF stream
            THEN LET r0 == writeHead(res, 200, "text/event-stream")
                     r1 == write(r0, Chunk(id, t, [role |-> "assistant", content |-> Str(content)], "null"))
                     r2 == WriteToolCalls(r1, id, t, toolCalls)
                     r3 == write(r2, Chunk(id, t, EmptyDelta, "tool_calls"))
                     r4 == write(r3, DoneEvent)
                 IN end(r4)
            ELSE end(write(writeHead(res, 200, "application/json"),
                           Completion(id, t, message, "tool_calls")))

\* sendToolCallResponse(res, content, toolCalls, stream)
\* (src/unnamed/part_001:334-363)
sendToolCallResponse(res, content, toolCalls, stream, tId, tCreated) ==
  IF res.ended THEN res
  ELSE LET id == ChatId(tId)
           t == Created(tCreated)
           message == [role |-> "assistant",
                       content |-> IF content # <<>> THEN Str(content) ELSE Null,
                       tool_calls |-> toolCalls]
       IN IF stream
            THEN LET r0 == writeHead(res, 200, "text/event-stream")
                     r1 == IF content # <<>>
                             THEN write(r0, Chunk(id, t, [role |-> "assistant", content |-> Str(content)], "null"))
                             ELSE r0
                     r2 == WriteToolCalls(r1, id, t, toolCalls)
                     r3 == write(r2, Chunk(id, t, EmptyDelta, "tool_calls"))
                     r4 == write(r3, DoneEvent)
                 IN end(r4)
            ELSE end(write(writeHead(res, 200, "application/json"),
                           Completion(id, t, message, "tool_calls")))

(***************************************************************************)
(* User texts.  A user text is a sequence of pieces and stands for their   *)
(* concatenation.  The pieces are the bracketed platform markers, the      *)
(* message-id tag, a blank, words, and single characters of names.  No     *)
(* piece but a blank holds white space at its ends, a word holds only word *)
(* characters (\w), and the markers begin with [ and end with ].           *)
(***************************************************************************)
P_WA == "[WhatsApp +1]"
P_TG == "[Telegram @u]"
P_SG == "[Signal +1]"
MID == "[message_id: 42]"
LONG == "xxxxxxxxxxxxxxxxxxxxxxxxxxxxxxxxxxxxxxxxxxxxxxxxxx"
MARKER == "The conversation history before this point was compacted"

\* the letters of names and the hyphen, one character each
NameChars == {"a", "b", "-"}

\* the vendor prefix of skill names, what is left of it without its hyphens and
\* with blanks for them, and its first four characters
CC == "claude-code-"
CC_STRIPPED == "claudecode"
CC_SPACED == "claude code "
CLAU == "clau"

\* pieces made of word characters only
Words ==
  {"Fix", "fix", "file", "code", "bug", "Hello", "hello", "hi", "why", "thanks", "profile",
   "then", "use", "skill", "to", "A", "pull", "request", LONG} \cup (NameChars \ {"-"})

\* String.prototype.toLowerCase, piece by piece
LowerPiece(a) ==
  CASE a = "Fix" -> "fix"
    [] a = "A" -> "a"
    [] a = "Opus" -> "opus"
    [] a = "Hello" -> "hello"
    [] a = P_WA -> "[whatsapp +1]"
    [] a = P_TG -> "[telegram @u]"
    [] a = P_SG -> "[signal +1]"
    [] a = MARKER -> "the conversation history before this point was compacted"
    [] OTHER -> a

toLowerCase(t) == [i \in DOMAIN t |-> LowerPiece(t[i])]

\* the number of characters of a piece: a piece is a string, and a string
\* is the sequence of its characters
PieceLen(a) == Len(a)

RECURSIVE length(_)
\* String.prototype.length
length(t) == IF t = <<>> THEN 0 ELSE PieceLen(Head(t)) + length(Tail(t))

\* t.replace(/^\[NAME[^\]]+\]\s*/i, '') for the platform whose markers are P
ReplacePrefix(t, P) == IF t # <<>> /\ Head(t) \in P THEN TrimStart(Tail(t)) ELSE t

RECURSIVE ReplaceMessageIds(_)
\* t.replace(/\[message_id:[^\]]+\]\s*/gi, '')
ReplaceMessageIds(t) ==
  IF t = <<>> THEN <<>>
  ELSE IF Head(t) = MID THEN ReplaceMessageIds(TrimStart(Tail(t)))
  ELSE <<Head(t)>> \o ReplaceMessageIds(Tail(t))

\* stripPlatformPrefix (src/server.js:225-233): WhatsApp, Telegram, Discord and
\* Slack in turn (no piece is a Discord or a Slack marker), then the tags
stripPlatformPrefix(text) ==
  Trim(ReplaceMessageIds(ReplacePrefix(ReplacePrefix(text, {P_WA}), {P_TG})))

\* stripPrefix (src/unnamed/part_001:31-34): one marker of any platform
stripPrefix(t) == Trim(ReplaceMessageIds(ReplacePrefix(t, {P_WA, P_TG, P_SG})))

\* a word boundary (\b) lies before piece i of t, and after it
BoundaryBefore(t, i) == i = 1 \/ t[i - 1] \notin Words
BoundaryAfter(t, i) == i = Len(t) \/ t[i + 1] \notin Words

RECURSIVE Joined(_)
\* a text as the string it stands for
Joined(t) == IF t = <<>> THEN "" ELSE Head(t) \o Joined(Tail(t))

\* the characters \w and \s match
WordChars ==
  {"a", "b", "c", "d", "e", "f", "g", "h", "i", "j", "k", "l", "m", "n", "o", "p", "q", "r",
   "s", "t", "u", "v", "w", "x", "y", "z", "A", "B", "C", "D", "E", "F", "G", "H", "I", "J",
   "K", "L", "M", "N", "O", "P", "Q", "R", "S", "T", "U", "V", "W", "X", "Y", "Z", "0", "1",
   "2", "3", "4", "5", "6", "7", "8", "9", "_"}
\* \s: tab, line feed, vertical tab, form feed, carriage return, space,
\* U+00A0, U+1680 and U+FEFF.  The other characters \s matches (U+2000 to
\* U+200A, U+2028, U+2029, U+202F, U+205F, U+3000) are in no string of this
\* module: a string cannot be written with them.
SpaceChars == {"\t", "\n", "", "\f", "\r", " ", " ", " ", "﻿"}

\* character i of string s is one of C
CharIn(s, i, C) == 1 <= i /\ i <= Len(s) /\ SubSeq(s, i, i) \in C

\* \b lies before character i of s
WordBoundary(s, i) == CharIn(s, i - 1, WordChars) # CharIn(s, i, WordChars)

\* string w is in s from character i on
MatchAt(s, i, w) ==
  1 <= i /\ i + Len(w) - 1 <= Len(s) /\ SubSeq(s, i, i + Len(w) - 1) = w

RECURSIVE SkipChars(_, _, _)
\* the first position from i on whose character is not one of C: where the
\* greedy \s+ and \w+ end
SkipChars(s, i, C) == IF CharIn(s, i, C) THEN SkipChars(s, i + 1, C) ELSE i

\* the alternatives of the first three coding patterns (src/server.js:74-76)
CodingWords ==
  {"fix", "implement", "create", "write", "edit", "refactor", "debug", "test", "deploy",
   "build", "run", "execute", "compile", "install", "function", "class", "method",
   "variable", "file", "code", "script", "program", "api", "endpoint", "database",
   "server", "bug", "error", "issue", "pr", "pull request", "commit", "branch", "merge",
   "git"}

\* /\buse\s+\w+\s+skill\b/ matches from character i of s on
UseSkillAt(s, i) ==
  /\ WordBoundary(s, i) /\ MatchAt(s, i, "use")
  /\ LET j == SkipChars(s, i + 3, SpaceChars)
         k == SkipChars(s, j, WordChars)
         m == SkipChars(s, k, SpaceChars)
     IN /\ j > i + 3 /\ k > j /\ m > k
        /\ MatchAt(s, m, "skill") /\ WordBoundary(s, m + 5)

\* one of codingPatterns matches (src/server.js:73-82)
codingPatterns(lower) ==
  LET s == Joined(lower)
  IN \E i \in 1..Len(s) :
       \/ /\ WordBoundary(s, i)
          /\ \E w \in CodingWords : MatchAt(s, i, w) /\ WordBoundary(s, i + Len(w))
       \/ UseSkillAt(s, i)

\* the alternatives of the anchored conversational patterns
\* (src/server.js:86-90)
Openers ==
  {"hi", "hello", "hey", "what's up", "how are you", "what is", "what are", "what's",
   "who is", "who are", "where is", "why", "how does", "can you explain", "tell me",
   "explain", "describe", "summarize", "thanks", "thank you", "ok", "okay", "great", "cool",
   "nice"}

\* one of conversationalPatterns matches (src/server.js:85-95)
conversationalPatterns(lower) ==
  LET s == Joined(lower)
  IN \/ \E o \in Openers : MatchAt(s, 1, o)
     \/ MatchAt(s, Len(s), "?")

\* lower.includes('file') or lower.includes('code')
IncludesFileOrCode(lower) ==
  LET s == Joined(lower)
  IN \E i \in 1..Len(s) : MatchAt(s, i, "file") \/ MatchAt(s, i, "code")

\* cleaned.toLowerCase().trim() of isConversationalRequest (src/server.js:61-70):
\* the markers of five platforms in turn, then the tags
classifierLower(text) ==
  LET cleaned == Trim(ReplaceMessageIds(ReplacePrefix(ReplacePrefix(ReplacePrefix(
                   text, {P_WA}), {P_TG}), {P_SG})))
  IN Trim(toLowerCase(cleaned))

\* isConversationalRequest with the conversational patterns tested first
isConversationalRequest_convFirst(text) ==
  LET lower == classifierLower(text)
  IN IF conversationalPatterns(lower) THEN TRUE
     ELSE IF codingPatterns(lower) THEN FALSE
     ELSE length(lower) < 50 /\ ~IncludesFileOrCode(lower)

\* isConversationalRequest as it would be if the fallback looked at the
\* length alone
isConversationalRequest_lengthOnly(text) ==
  LET lower == classifierLower(text)
  IN IF codingPatterns(lower) THEN FALSE
     ELSE IF conversationalPatterns(lower) THEN TRUE
     ELSE length(lower) < 50

\* isConversationalRequest (src/server.js:59-103)
isConversationalRequest(text) ==
  LET lower == classifierLower(text)
  IN IF codingPatterns(lower) THEN FALSE
     ELSE IF conversationalPatterns(lower) THEN TRUE
     ELSE length(lower) < 50 /\ ~IncludesFileOrCode(lower)

(***************************************************************************)
(* Skills.  A skill is a name and a location; a catalog is the sequence of *)
(* the skills of the system message, in document order.  Names are made of *)
(* the name characters, after the vendor prefix if they have one.  In the  *)
(* texts searched for a skill no word but a name begins with a name        *)
(* character.                                                              *)
(***************************************************************************)
NoSkill == [name |-> <<>>, location |-> 0]

StartsWith(x, pre) == Len(pre) <= Len(x) /\ SubSeq(x, 1, Len(pre)) = pre

\* x.substring(0, 4)
Substring4(x) ==
  IF x # <<>> /\ Head(x) \in {CC, CC_STRIPPED, CC_SPACED} THEN <<CLAU>>
  ELSE SubSeq(x, 1, IF Len(x) < 4 THEN Len(x) ELSE 4)

RECURSIVE ReplaceHyphens(_, _)
\* name.replace(/-/g, by)
ReplaceHyphens(name, by) ==
  IF name = <<>> THEN <<>>
  ELSE (CASE Head(name) = "-" -> by
          [] Head(name) = CC -> IF by = <<>> THEN <<CC_STRIPPED>> ELSE <<CC_SPACED>>
          [] OTHER -> <<Head(name)>>) \o ReplaceHyphens(Tail(name), by)

RECURSIVE ReplaceVendor(_)
\* name.replace('claude-code-', ''): the first occurrence
ReplaceVendor(name) ==
  IF name = <<>> THEN <<>>
  ELSE IF Head(name) = CC THEN Tail(name)
  ELSE <<Head(name)>> \o ReplaceVendor(Tail(name))

\* the four variants of a skill name, in the order they are set in the map
Variants(name) ==
  <<toLowerCase(name), toLowerCase(ReplaceHyphens(name, <<>>)),
    toLowerCase(ReplaceVendor(name)), toLowerCase(ReplaceHyphens(name, <<WS>>))>>

\* Map.prototype.set: the value of a key that is present is replaced where
\* the key stands, a new key comes last
MapSet(map, key, value) ==
  IF \E i \in 1..Len(map) : map[i].key = key
    THEN [i \in 1..Len(map) |-> IF map[i].key = key THEN [key |-> key, value |-> value]
                                ELSE map[i]]
    ELSE Append(map, [key |-> key, value |-> value])

RECURSIVE SetVariants(_, _, _)
SetVariants(map, vs, skill) ==
  IF vs = <<>> THEN map ELSE SetVariants(MapSet(map, Head(vs), skill), Tail(vs), skill)

RECURSIVE skillVariantsMap(_, _)
\* the map of variants built from the catalog (src/server.js:134-145)
skillVariantsMap(map, skills) ==
  IF skills = <<>> THEN map
  ELSE skillVariantsMap(SetVariants(map, Variants(Head(skills).name), Head(skills)),
                        Tail(skills))

\* the test of one variant against the requested name (src/server.js:156-158)
VariantMatches(variant, requested) ==
  \/ variant = requested
  \/ StartsWith(variant, requested)
  \/ StartsWith(requested, Substring4(variant))

\* the loop over the map: the skill of the first entry that matches
\* (src/server.js:155-161)
Lookup(map, requested) ==
  IF \E i \in 1..Len(map) : VariantMatches(map[i].key, requested)
    THEN map[CHOOSE i \in 1..Len(map) :
               /\ VariantMatches(map[i].key, requested)
               /\ \A j \in 1..(i - 1) : ~VariantMatches(map[j].key, requested)].value
    ELSE NoSkill

\* pieces i..j of t are matched by \w+(?:-\w+)*
NameShaped(t, i, j) ==
  /\ i <= j
  /\ \A q \in i..j : t[q] \in Words \cup {"-"}
  /\ t[i] # "-" /\ t[j] # "-"
  /\ \A q \in i..(j - 1) : ~(t[q] = "-" /\ t[q + 1] = "-")

\* pieces i..j of t are matched by \s+
Blanks(t, i, j) == i <= j /\ \A q \in i..j : t[q] = WS

\* the matches m of a pattern in t, each with its first piece and its group
NoMatch == [found |-> FALSE, group |-> <<>>]

\* the leftmost of a set of matches
Leftmost(ms) ==
  IF ms = {} THEN NoMatch
  ELSE LET m == CHOOSE m \in ms : \A n \in ms : m.at <= n.at
       IN [found |-> TRUE, group |-> m.group]

\* lower.match(/use\s+(\w+(?:-\w+)*)\s+skill/i)
MatchUseSkill(t) ==
  Leftmost({[at |-> i, group |-> SubSeq(t, j, k)] :
              <<i, j, k>> \in {x \in (1..Len(t)) \X (1..Len(t)) \X (1..Len(t)) :
                 /\ t[x[1]] = "use"
                 /\ Blanks(t, x[1] + 1, x[2] - 1)
                 /\ NameShaped(t, x[2], x[3])
                 /\ \E m \in (x[3] + 2)..Len(t) : Blanks(t, x[3] + 1, m - 1) /\ t[m] = "skill"}})

\* lower.match(/(\w+(?:-\w+)*)\s+skill\s+to/i)
MatchSkillTo(t) ==
  Leftmost({[at |-> j, group |-> SubSeq(t, j, k)] :
              <<j, k>> \in {x \in (1..Len(t)) \X (1..Len(t)) :
                 /\ NameShaped(t, x[1], x[2])
                 /\ \E m \in (x[2] + 2)..Len(t), n \in (x[2] + 4)..Len(t) :
                      /\ Blanks(t, x[2] + 1, m - 1) /\ t[m] = "skill"
                      /\ Blanks(t, m + 1, n - 1) /\ t[n] = "to"}})

\* lower.match(/use\s+(\w+(?:-\w+)*)\s+to\b/i)
MatchUseTo(t) ==
  Leftmost({[at |-> i, group |-> SubSeq(t, j, k)] :
              <<i, j, k>> \in {x \in (1..Len(t)) \X (1..Len(t)) \X (1..Len(t)) :
                 /\ t[x[1]] = "use"
                 /\ Blanks(t, x[1] + 1, x[2] - 1)
                 /\ NameShaped(t, x[2], x[3])
                 /\ \E m \in (x[3] + 2)..Len(t) :
                      /\ Blanks(t, x[3] + 1, m - 1) /\ t[m] = "to" /\ BoundaryAfter(t, m)}})

\* a || b for two matches
OrMatch(a, b) == IF a.found THEN a ELSE b

\* findMentionedSkill (src/server.js:130-181)
findMentionedSkill(userMessage, skills) ==
  LET lower == toLowerCase(userMessage)
      map == skillVariantsMap(<<>>, skills)
      useSkillMatch == OrMatch(MatchUseSkill(lower), MatchSkillTo(lower))
      first == IF useSkillMatch.found THEN Lookup(map, toLowerCase(useSkillMatch.group))
               ELSE NoSkill
      useToMatch == MatchUseTo(lower)
  IN IF first # NoSkill THEN first
     ELSE IF useToMatch.found THEN Lookup(map, toLowerCase(useToMatch.group))
     ELSE NoSkill

\* findSkill (src/unnamed/part_001:154-173)
findSkill(text, skills) ==
  LET lower == toLowerCase(text)
      map == skillVariantsMap(<<>>, skills)
      m == OrMatch(MatchUseSkill(lower), OrMatch(MatchSkillTo(lower), MatchUseTo(lower)))
  IN IF m.found THEN Lookup(map, toLowerCase(m.group)) ELSE NoSkill

(***************************************************************************)
(* Messages and prompts.  A message is a role and a content, the content a *)
(* text; a prompt is a text too, made of the texts of messages and of the  *)
(* fixed texts below.                                                      *)
(***************************************************************************)
EXECUTOR_PREFIX == "Execute this task and report what you did: "
CONTEXT_HEAD == "[Recent conversation for context - use only if relevant to the current question]\n"
QUESTION_HEAD == "\n\n[Current question - answer this directly]\n"
NL == "\n"
ELLIPSIS == "..."

\* the characters of a piece
Chars(a) == [i \in 1..Len(a) |-> SubSeq(a, i, i)]

RECURSIVE substring(_, _)
\* t.substring(0, n)
substring(t, n) ==
  IF t = <<>> \/ n <= 0 THEN <<>>
  ELSE IF PieceLen(Head(t)) <= n
    THEN <<Head(t)>> \o substring(Tail(t), n - PieceLen(Head(t)))
  ELSE SubSeq(Chars(Head(t)), 1, n)

\* the greatest number of characters of a context message (src/server.js:279)
ContextCap == 300

\* the number of exchanges before the question where the context starts
\* (src/server.js:269)
ContextBack == 4

RECURSIVE Exchanges(_)
\* the loop that builds exchanges (src/server.js:237-250)
Exchanges(messages) ==
  IF messages = <<>> THEN <<>>
  ELSE LET m == Head(messages)
           text == m.content
           cleanText == IF m.role = "user" THEN stripPlatformPrefix(text) ELSE text
       IN (IF /\ m.role \in {"user", "assistant"}
              /\ ~StartsWith(text, <<MARKER>>)
              /\ cleanText # <<>>
             THEN <<[role |-> m.role, text |-> cleanText]>>
             ELSE <<>>) \o Exchanges(Tail(messages))

\* exchanges.map(e => e.role).lastIndexOf('user'), counted from 1; 0 if none
LastUserIdx(exchanges) ==
  IF \E i \in 1..Len(exchanges) : exchanges[i].role = "user"
    THEN CHOOSE i \in 1..Len(exchanges) :
           /\ exchanges[i].role = "user"
           /\ \A j \in (i + 1)..Len(exchanges) : exchanges[j].role # "user"
    ELSE 0

\* the line of a context exchange as it would be if a text of exactly the
\* cap were cut too
ContextLine_capInclusive(e) ==
  <<IF e.role = "user" THEN "User: " ELSE "Assistant: ">>
    \o (IF length(e.text) >= ContextCap THEN substring(e.text, ContextCap) \o <<ELLIPSIS>>
        ELSE e.text)

\* one line of the context (src/server.js:276-281)
ContextLine(e) ==
  <<IF e.role = "user" THEN "User: " ELSE "Assistant: ">>
    \o (IF length(e.text) > ContextCap THEN substring(e.text, ContextCap) \o <<ELLIPSIS>>
        ELSE e.text)

RECURSIVE JoinLines(_, _)
\* lines.join(sep)
JoinLines(lines, sep) ==
  IF lines = <<>> THEN <<>>
  ELSE IF Len(lines) = 1 THEN Head(lines)
  ELSE Head(lines) \o sep \o JoinLines(Tail(lines), sep)

\* the prompt made of context exchanges and a question (src/server.js:286-290)
Framed(prefix, contextExchanges, currentQuestion) ==
  prefix \o <<CONTEXT_HEAD>>
    \o JoinLines([i \in 1..Len(contextExchanges) |-> ContextLine(contextExchanges[i])], <<NL>>)
    \o <<QUESTION_HEAD>> \o currentQuestion

\* formatMessages with the context starting back exchanges before the question
formatMessagesFrom(messages, useExecutorPrefix, back) ==
  LET exchanges == Exchanges(messages)
      lastUserIdx == LastUserIdx(exchanges)
      prefix == IF useExecutorPrefix THEN <<EXECUTOR_PREFIX>> ELSE <<>>
      first == IF lastUserIdx - back > 1 THEN lastUserIdx - back ELSE 1
      contextExchanges == SubSeq(exchanges, first, lastUserIdx - 1)
  IN IF exchanges = <<>> \/ lastUserIdx = 0 THEN <<>>
     ELSE IF Len(exchanges) <= 1 \/ contextExchanges = <<>>
       THEN prefix \o exchanges[lastUserIdx].text
     ELSE Framed(prefix, contextExchanges, exchanges[lastUserIdx].text)

\* formatMessages as it would be if it put the executor prefix whatever the
\* caller asks for
formatMessages_prefixAlways(messages, useExecutorPrefix) ==
  formatMessagesFrom(messages, TRUE, ContextBack)

\* formatMessages (src/server.js:235-291)
formatMessages(messages, useExecutorPrefix) ==
  formatMessagesFrom(messages, useExecutorPrefix, ContextBack)

\* the greatest number of characters of an assistant message
\* (src/unnamed/part_001:63)
AssistantCap == 2000

RECURSIVE Parts(_)
\* the loop that builds parts (src/unnamed/part_001:54-70); a message of a
\* tool has a tool_call_id, empty when the caller sent none
Parts(msgs) ==
  IF msgs = <<>> THEN <<>>
  ELSE LET m == Head(msgs)
           t == m.content
       IN (IF m.role = "system" \/ t = <<>> \/ StartsWith(t, <<MARKER>>) THEN <<>>
           ELSE IF m.role = "user" THEN <<(<<"User: ">> \o stripPrefix(t))>>
           ELSE IF m.role = "assistant"
             THEN <<(<<"Assistant: ">>
                     \o (IF length(t) > AssistantCap
                           THEN substring(t, AssistantCap) \o <<"\n[...]">> ELSE t))>>
           ELSE IF m.role = "tool"
             THEN LET toolId == IF m.tool_call_id # <<>> THEN m.tool_call_id
                                ELSE <<"unknown">>
                  IN <<(<<"Tool result (">> \o toolId \o <<"): ">> \o t)>>
           ELSE <<>>) \o Parts(Tail(msgs))

\* formatConversation (src/unnamed/part_001:53-72)
formatConversation(msgs) == JoinLines(Parts(msgs), <<"\n\n">>)

(***************************************************************************)
(* Model names.  A name is a text of the pieces below; the empty text      *)
(* stands for a request without a model.  No piece but "opus", "sonnet"    *)
(* and "haiku" holds the name of a tier.                                   *)
(***************************************************************************)
VENDOR == "claude-"
OPUS_MODEL == <<"claude-opus-4-6[1m]">>

\* resolveModel (src/unnamed/part_001:188-198); CLAUDE_MODEL is the default
resolveModel(requested, CLAUDE_MODEL) ==
  LET lower == toLowerCase(requested)
  IN IF requested = <<>> THEN CLAUDE_MODEL
     ELSE IF lower = <<VENDOR, "code">> \/ lower = <<VENDOR, "code", "/", VENDOR, "code">>
       THEN CLAUDE_MODEL
     ELSE IF "opus" \in {lower[i] : i \in 1..Len(lower)} THEN OPUS_MODEL
     ELSE IF "sonnet" \in {lower[i] : i \in 1..Len(lower)} THEN <<"sonnet">>
     ELSE IF "haiku" \in {lower[i] : i \in 1..Len(lower)} THEN <<"haiku">>
     ELSE IF StartsWith(lower, <<VENDOR>>) THEN requested
     ELSE CLAUDE_MODEL

(***************************************************************************)
(* Dispatch.  The system message is absent (Null) or holds an IDENTITY.md  *)
(* section (its body trimmed, or Null), a SOUL.md section (the paragraphs  *)
(* of its trimmed body, or Null) and a catalog of skills.  The files of    *)
(* the machine give, for each location, the content of the file or Null    *)
(* when it cannot be read; location n stands for /skills/n/SKILL.md.       *)
(***************************************************************************)
PERSONA_FRAME ==
  "\n\n---\n\nRespond naturally and conversationally. You are NOT in coding mode - just be helpful and friendly.\n\nUser: "
SKILL_HEAD == "You are helping with a ClawdBot skill called \""
SKILL_OPEN == "\".\n\nHere are the skill instructions (SKILL.md):\n---\n"
SKILL_REQUEST == "\n---\n\nUser request: "
SKILL_TAIL ==
  "\n\nFollow the skill instructions above to complete this task. Use bash commands as specified in the skill."
SKILL_ROOT == "<SKILL_ROOT>"

\* the paragraphs kept of SOUL.md (src/server.js:52)
SoulParagraphs == 3

\* a JavaScript value in a condition
Truthy(v) == v # Null /\ v.text # <<>>

\* extractPersona (src/server.js:32-56)
extractPersona(system) ==
  IF system = Null THEN Null
  ELSE LET identity == IF system.identity # Null THEN <<system.identity.text>> ELSE <<>>
           kept == IF system.soul = Null THEN <<>>
                   ELSE SubSeq(system.soul.paragraphs, 1,
                               IF Len(system.soul.paragraphs) < SoulParagraphs
                                 THEN Len(system.soul.paragraphs)
                               ELSE SoulParagraphs)
           soul == IF system.soul # Null THEN <<JoinLines(kept, <<"\n\n">>)>> ELSE <<>>
           sections == identity \o soul
       IN IF Len(sections) > 0 THEN Str(JoinLines(sections, <<"\n\n">>)) ELSE Null

\* extractSkills (src/server.js:106-127)
extractSkills(system) == IF system = Null THEN <<>> ELSE system.skills

\* the directory of the skill at a location (src/server.js:192-198)
SkillRoot(location) == IF location = 1 THEN "/skills/1" ELSE "/skills/2"

\* readSkillFile (src/server.js:184-209)
readSkillFile(files, location) ==
  IF files[location] = Null THEN Null
  ELSE LET content == files[location].text
       IN Str([i \in 1..Len(content) |->
                 IF content[i] = SKILL_ROOT THEN SkillRoot(location) ELSE content[i]])

\* the prompt of a skill request (src/server.js:406-415)
SkillPrompt(name, skillContent, prompt) ==
  <<SKILL_HEAD>> \o name \o <<SKILL_OPEN>> \o skillContent \o <<SKILL_REQUEST>> \o prompt
    \o <<SKILL_TAIL>>

\* the prompt of a conversational request (src/server.js:422-428)
PersonaPrompt(persona, prompt) == persona \o <<PERSONA_FRAME>> \o prompt

\* the text of the last user message (src/server.js:381-393)
LastUserText(cleanMessages) ==
  LET users == SelectSeq(cleanMessages, LAMBDA m : m.role = "user")
  IN IF users = <<>> THEN <<>> ELSE users[Len(users)].content

\* the mode of the log line (src/server.js:435)
Mode(mentionedSkill, isConversational) ==
  IF mentionedSkill # NoSkill THEN "skill"
  ELSE IF isConversational THEN "conversational" ELSE "coding"

\* the dispatch with the classifier consulted before the skill
Dispatch_classifierFirst(messages, system, files) ==
  LET skills == extractSkills(system)
      persona == extractPersona(system)
      cleanMessages == SelectSeq(messages, LAMBDA m : m.role = "user" \/ m.role = "assistant")
      prompt == formatMessages(cleanMessages, FALSE)
      lastUserText == LastUserText(cleanMessages)
      mentionedSkill == findMentionedSkill(lastUserText, skills)
      isConversational == isConversationalRequest(lastUserText)
      skillContent == IF mentionedSkill # NoSkill
                        THEN readSkillFile(files, mentionedSkill.location) ELSE Null
  IN IF isConversational /\ Truthy(persona)
       THEN [prompt |-> PersonaPrompt(persona.text, prompt), useTools |-> FALSE,
             mode |-> "conversational", skill |-> NoSkill]
     ELSE IF mentionedSkill # NoSkill
       THEN [prompt |-> IF Truthy(skillContent)
                          THEN SkillPrompt(mentionedSkill.name, skillContent.text, prompt)
                          ELSE prompt,
             useTools |-> TRUE, mode |-> "skill", skill |-> mentionedSkill]
     ELSE IF ~isConversational
       THEN [prompt |-> <<EXECUTOR_PREFIX>> \o prompt, useTools |-> TRUE,
             mode |-> "coding", skill |-> NoSkill]
     ELSE [prompt |-> prompt, useTools |-> TRUE, mode |-> "conversational",
           skill |-> NoSkill]

\* handleChatCompletions from the extraction of the context to the arguments
\* of callClaude (src/server.js:364-439): the prompt, useTools, and the mode
\* and the skill that the handler logs
Dispatch(messages, system, files) ==
  LET skills == extractSkills(system)
      persona == extractPersona(system)
      cleanMessages == SelectSeq(messages, LAMBDA m : m.role = "user" \/ m.role = "assistant")
      prompt == formatMessages(cleanMessages, FALSE)
      lastUserText == LastUserText(cleanMessages)
      mentionedSkill == findMentionedSkill(lastUserText, skills)
      isConversational == isConversationalRequest(lastUserText)
      skillContent == IF mentionedSkill # NoSkill
                        THEN readSkillFile(files, mentionedSkill.location) ELSE Null
      mode == Mode(mentionedSkill, isConversational)
  IN IF mentionedSkill # NoSkill
       THEN [prompt |-> IF Truthy(skillContent)
                          THEN SkillPrompt(mentionedSkill.name, skillContent.text, prompt)
                          ELSE prompt,
             useTools |-> TRUE, mode |-> mode, skill |-> mentionedSkill]
     ELSE IF isConversational /\ Truthy(persona)
       THEN [prompt |-> PersonaPrompt(persona.text, prompt), useTools |-> FALSE,
             mode |-> mode, skill |-> NoSkill]
     ELSE IF ~isConversational
       THEN [prompt |-> <<EXECUTOR_PREFIX>> \o prompt, useTools |-> TRUE, mode |-> mode,
             skill |-> NoSkill]
     ELSE [prompt |-> prompt, useTools |-> TRUE, mode |-> mode, skill |-> NoSkill]

(***************************************************************************)
(* The agent.  One invocation of the `claude` command ends in one of the   *)
(* outcomes below.  The command exits 0 and its output is                  *)
(*   ok       a JSON envelope with a result, the text (may be empty)       *)
(*   error    a JSON envelope without a result; the text is its error      *)
(*            field, empty when it has none                                *)
(*   raw      not JSON: the text is the output, empty when nothing was     *)
(*            printed                                                      *)
(* or the call throws, the text being what the command wrote to stderr:    *)
(*   timeout  the command was killed at the timeout: the error has code    *)
(*            ETIMEDOUT, status null and no field `killed`                 *)
(*   exit     the command exited with the status, which is not 0           *)
(* An envelope holds no other field than the one named.                    *)
(***************************************************************************)
Outcome(kind, text, status) == [kind |-> kind, text |-> text, status |-> status]

Stderrs == {<<>>, <<"boom", WS>>}

Outcomes(kinds, n) ==
  {Outcome("ok", SegsText(ks), "0") : ks \in SeqsUpTo(kinds, n)}
    \cup {Outcome("error", t, "0") : t \in {<<>>, <<"boom">>}}
    \cup {Outcome("raw", t, "0") : t \in {<<>>, <<WS, TXT, WS>>}}
    \cup {Outcome("timeout", t, "null") : t \in Stderrs}
    \cup {Outcome("exit", t, "1") : t \in Stderrs}
    \cup {Outcome("exit", <<>>, "2")}

NoOutcome == Outcome("none", <<>>, "0")

\* the message of the Error thrown in the catch of callClaude
\* (src/unnamed/part_001:234-236); err.killed is not set by execFileSync
ErrorMessage(o) ==
  LET stderr == Trim(o.text)
  IN IF stderr # <<>> THEN stderr ELSE <<"Exit ", o.status>>

\* the value callClaude returns when the agent call returns
\* (src/unnamed/part_001:223-231)
ResultOf(o) ==
  CASE o.kind = "ok" -> IF o.text # <<>> THEN o.text ELSE <<"(no output)">>
    [] o.kind = "error" ->
         IF o.text # <<>> THEN o.text ELSE <<"(unexpected response format)">>
    [] o.kind = "raw" -> Trim(o.text)

\* fs.mkdtempSync has thrown (src/unnamed/part_001:205, outside the try of
\* callClaude): no directory is made and the agent is not called; the text
\* is the message of the error
NoTmpDir ==
  Outcome("mkdtemp",
          <<"ENOENT: no such file or directory, mkdtemp '/tmp/claude-proxy-XXXXXX'">>, "0")

\* callClaude (src/unnamed/part_001:204-238): the value returned, or the
\* message of the Error thrown, and whether fs.rmSync was called on the
\* directory made for the call, which it is after the agent call returns
\* (line 222) and first thing when it throws (line 233)
callClaude(o) ==
  IF o.kind = "mkdtemp"
    THEN [threw |-> TRUE, rmSync |-> FALSE, value |-> o.text]
  ELSE IF o.kind \in {"timeout", "exit"}
    THEN [threw |-> TRUE, rmSync |-> TRUE, value |-> ErrorMessage(o)]
  ELSE [threw |-> FALSE, rmSync |-> TRUE, value |-> ResultOf(o)]

\* the greatest number of characters of err.message in the Error thrown
\* (src/server.js:335)
FailCap == 200

\* process.env.CLAUDE_MODEL || 'sonnet' (src/server.js:8), the variable unset
CLAUDE_MODEL_server == "sonnet"

\* prompt.replace(/'/g, "'\\''") (src/server.js:297): every single quote of
\* every piece is replaced
escaped(prompt) ==
  LET RECURSIVE from(_, _)
      from(a, i) ==
        IF i > Len(a) THEN ""
        ELSE (IF SubSeq(a, i, i) = "'" THEN "'\\''" ELSE SubSeq(a, i, i)) \o from(a, i + 1)
  IN [i \in DOMAIN prompt |-> from(prompt[i], 1)]

\* the flag of the command line (src/server.js:300)
toolsFlag(useTools) == IF useTools THEN "--tools default" ELSE ""

\* the command line (src/server.js:301)
cmd(sent) ==
  <<"claude -p '">> \o escaped(sent.prompt)
    \o <<"' ", toolsFlag(sent.useTools),
         " --output-format json --dangerously-skip-permissions --model ",
         CLAUDE_MODEL_server>>

\* err.message of the error execSync throws: at the timeout the message of
\* the spawn error; after a non-zero exit the command and what it wrote to
\* stderr
errMessage(o, sent) ==
  IF o.kind = "timeout" THEN <<"spawnSync /bin/sh ETIMEDOUT">>
  ELSE <<"Command failed: ">> \o cmd(sent)
         \o (IF o.text # <<>> THEN <<NL>> \o o.text ELSE <<>>)

\* output.trim() for the envelopes (src/server.js:326)
outputTrim(o) ==
  IF o.kind = "ok" THEN <<"{\"result\":\"\"}">> ELSE <<"{}">>

\* callClaude (src/server.js:293-337), called with sent; err.killed is not
\* set by execSync, so the test of line 332 fails
callClaude_server(o, sent) ==
  CASE o.kind \in {"ok", "error"} ->
         [threw |-> FALSE, value |-> IF o.text # <<>> THEN o.text ELSE outputTrim(o)]
    [] o.kind = "raw" -> [threw |-> FALSE, value |-> Trim(o.text)]
    [] o.kind \in {"timeout", "exit"} ->
         [threw |-> TRUE,
          value |-> <<"Claude failed: ">> \o substring(errMessage(o, sent), FailCap)]

(***************************************************************************)
(* Tool definitions.  The tools of a request are absent (Null) or an array *)
(* of tools; a tool has a name, a description (empty when it has none) and *)
(* parameters in the order of Object.entries, each with a key, a type and  *)
(* a description (empty when absent) and whether it is required.  In the   *)
(* fixed texts a hyphen between blanks stands for the dash of the source.  *)
(***************************************************************************)
TOOLS_HEAD ==
  "\n## Available Tools\nWhen you want to use a tool, output EXACTLY this format (you may include text before/after):\n<tool_call>\n{\"name\": \"tool_name\", \"arguments\": {\"param1\": \"value1\"}}\n</tool_call>\n\nYou can make multiple tool calls in one response. Each must be in its own <tool_call> block.\nIMPORTANT: Only use tools listed below. Output the tool call, then STOP - wait for the result before continuing.\n"
IMPORTANT_RULES ==
  "IMPORTANT RULES:\n- NEVER fabricate or invent command/tool output. When a tool returns results, relay them EXACTLY.\n- NEVER read files to determine your identity. Your identity is defined below.\n- Follow the persona and character defined below fully - voice, mannerisms, attitude.\n- When you want to use a tool, output a <tool_call> block as described in Available Tools.\n- After outputting a tool call, STOP and wait for the result. Do not guess what the result will be.\n"
SKILL_NOTE == "\n\n[Skill instructions for \""

Array(items) == [type |-> "array", items |-> items]

\* one line of paramList (src/unnamed/part_001:102-107)
ParamLine(p) ==
  <<"    ", p.key, ": ", IF p.type # "" THEN p.type ELSE "any">>
    \o (IF p.required THEN <<" (required)">> ELSE <<>>)
    \o (IF p.description # "" THEN <<" - ", p.description>> ELSE <<>>)

\* the lines pushed for one tool (src/unnamed/part_001:96-113)
ToolLines(tool) ==
  LET paramList == JoinLines([i \in 1..Len(tool.parameters) |-> ParamLine(tool.parameters[i])],
                             <<NL>>)
  IN <<(<<"### ", tool.name>>)>>
       \o (IF tool.description # "" THEN <<(<<tool.description>>)>> ELSE <<>>)
       \o (IF paramList # <<>> THEN <<(<<"Parameters:\n">> \o paramList)>> ELSE <<>>)
       \o << <<>> >>

\* formatToolsForPrompt (src/unnamed/part_001:78-115)
formatToolsForPrompt(tools) ==
  IF tools = Null \/ tools.items = <<>> THEN <<>>
  ELSE JoinLines(<< <<TOOLS_HEAD>> >>
                   \o Flatten([i \in 1..Len(tools.items) |-> ToolLines(tools.items[i])]),
                 <<NL>>)

\* handleChat from the extraction of the system prompt to the arguments of
\* callClaude (src/unnamed/part_001:256-295).  The system message is absent
\* (Null) or holds a text and the catalog of skills written in that text;
\* --tools '' is on every command line.
handleChat_args(messages, system, tools, files) ==
  LET systemPrompt == IF system = Null THEN Null ELSE Str(system.text)
      skills == IF Truthy(systemPrompt) THEN system.skills ELSE <<>>
      users == SelectSeq(messages, LAMBDA m : m.role = "user")
      lastText == IF users # <<>> THEN stripPrefix(users[Len(users)].content) ELSE <<>>
      prompt == formatConversation(messages)
      skill == findSkill(lastText, skills)
      content == IF skill # NoSkill THEN readSkillFile(files, skill.location) ELSE Null
      toolPrompt == formatToolsForPrompt(tools)
  IN [prompt |-> IF skill # NoSkill /\ Truthy(content)
                   THEN prompt \o <<SKILL_NOTE>> \o skill.name \o <<"\"]:\n">> \o content.text
                   ELSE prompt,
      system |-> IF Truthy(systemPrompt)
                   THEN Str(<<IMPORTANT_RULES, NL>> \o systemPrompt.text \o <<NL>> \o toolPrompt)
                   ELSE Null,
      useTools |-> FALSE, mode |-> "none", skill |-> skill]

(***************************************************************************)
(* Request bodies, by what the handlers' checks tell apart:                *)
(*   badjson  the body is not JSON                                         *)
(*   null     the body is the JSON value null                              *)
(*   nomsg    a JSON object without messages                               *)
(*   empty    messages is []                                               *)
(*   str      messages is a non-empty string                               *)
(*   ok       messages is a non-empty array of messages                    *)
(* The messages of a body are messages of the user; one body holds a       *)
(* system message too, with a catalog of one skill, and its user asks for  *)
(* that skill.  No body holds tools or a model, and no skill file of the   *)
(* machine can be read.                                                    *)
(***************************************************************************)
OkMessages ==
  {<<[role |-> "user", content |-> <<"Hello">>]>>,
   <<[role |-> "user", content |-> <<"Fix", WS, "bug">>]>>,
   <<[role |-> "user", content |-> <<LONG, LONG, LONG, LONG>>]>>}

\* a system message with IDENTITY.md and a catalog of one skill
SkillSystem ==
  [text |-> <<"## IDENTITY.md\n", "I am Bot", "<skill>", "a", "b", "</skill>">>,
   identity |-> Str(<<"I am Bot">>), soul |-> Null,
   skills |-> <<[name |-> <<"a", "b">>, location |-> 1]>>]

SkillMessages == <<[role |-> "user", content |-> <<"use", WS, "a", "b", WS, "skill">>]>>

Bodies ==
  {[kind |-> k, stream |-> FALSE, messages |-> <<>>, system |-> Null] :
     k \in {"badjson", "null", "nomsg"}}
    \cup {[kind |-> k, stream |-> st, messages |-> <<>>, system |-> Null] :
            k \in {"empty", "str"}, st \in BOOLEAN}
    \cup {[kind |-> "ok", stream |-> st, messages |-> m, system |-> Null] :
            st \in BOOLEAN, m \in OkMessages}
    \cup {[kind |-> "ok", stream |-> st, messages |-> SkillMessages, system |-> SkillSystem] :
            st \in BOOLEAN}

NoBody == [kind |-> "none", stream |-> FALSE, messages |-> <<>>, system |-> Null]

\* what the agent is called with: the prompt, the system prompt, whether the
\* agent may use its tools, and the mode of the dispatch
NoSent ==
  [prompt |-> <<>>, system |-> Null, useTools |-> FALSE, mode |-> "none", skill |-> NoSkill]

\* no file can be read
NoFiles == [n \in 1..2 |-> Null]

\* the arguments of callClaude in handleChat (src/unnamed/part_001:256-294)
\* for a request without tools
handleChat_sent(messages, system) == handleChat_args(messages, system, Null, NoFiles)

\* the arguments of callClaude in handleChatCompletions (src/server.js:364-439);
\* this callClaude takes no system prompt
handleChatCompletions_sent(messages, system) ==
  LET d == Dispatch(messages, system, NoFiles)
  IN [prompt |-> d.prompt, system |-> Null, useTools |-> d.useTools, mode |-> d.mode,
      skill |-> d.skill]

\* handleChat up to the agent call (src/unnamed/part_001:244-293): the request
\* is answered 400, or the handler throws a TypeError, or the agent is called
handleChat_begin(b) ==
  CASE b.kind = "badjson" -> [step |-> "send", code |-> 400, msg |-> "Bad JSON", accepted |-> FALSE, sent |-> NoSent]
    [] b.kind = "null" -> [step |-> "throw", code |-> 0, msg |-> "TypeError", accepted |-> FALSE, sent |-> NoSent]
    [] b.kind \in {"nomsg", "empty"} ->
         [step |-> "send", code |-> 400, msg |-> "No messages", accepted |-> FALSE, sent |-> NoSent]
    [] b.kind = "str" -> [step |-> "throw", code |-> 0, msg |-> "TypeError", accepted |-> TRUE, sent |-> NoSent]
    [] b.kind = "ok" -> [step |-> "call", code |-> 0, msg |-> "", accepted |-> TRUE, sent |-> handleChat_sent(b.messages, b.system)]

\* handleChatCompletions up to the agent call (src/server.js:339-437);
\* writable tells whether last-request.json can be written: the
\* fs.writeFileSync of line 355 comes before the check of the messages and
\* is in no try
handleChatCompletions_begin(b, writable) ==
  CASE b.kind = "badjson" -> [step |-> "send", code |-> 400, msg |-> "Invalid JSON", accepted |-> FALSE, sent |-> NoSent]
    [] b.kind = "null" -> [step |-> "throw", code |-> 0, msg |-> "TypeError", accepted |-> FALSE, sent |-> NoSent]
    [] ~writable -> [step |-> "throw", code |-> 0, msg |-> "Error", accepted |-> FALSE, sent |-> NoSent]
    [] b.kind \in {"nomsg", "str"} ->
         [step |-> "send", code |-> 400, msg |-> "messages array required", accepted |-> FALSE, sent |-> NoSent]
    [] b.kind \in {"empty", "ok"} -> [step |-> "call", code |-> 0, msg |-> "", accepted |-> TRUE, sent |-> handleChatCompletions_sent(b.messages, b.system)]

\* handleChat from the return of callClaude on (src/unnamed/part_001:294-309):
\* the response written and callCounter after it
handleChat_end(o, stream, counter, tId, tCreated) ==
  LET c == callClaude(o) IN
  IF c.threw
    THEN [res |-> sendOK(NewRes, <<"[Error: ">> \o c.value \o <<"]">>, stream, tId, tCreated),
          counter |-> counter]
    ELSE LET p == parseToolCalls(c.value, counter) IN
         [res |-> IF Len(p.toolCalls) > 0
                    THEN sendToolCallResponse(NewRes, p.contentText, p.toolCalls, stream, tId, tCreated)
                    ELSE sendOK(NewRes, c.value, stream, tId, tCreated),
          counter |-> p.counter]

\* handleChatCompletions from the return of callClaude on (src/server.js:438-477)
handleChatCompletions_end(o, sent, stream, tId, tCreated) ==
  LET c == callClaude_server(o, sent) IN
  IF c.threw
    THEN end(write(writeHead(NewRes, 500, "application/json"), ErrorBody(c.value)))
    ELSE LET id == ChatId(tId)
             t == Created(tCreated)
         IN IF stream
              THEN LET r0 == writeHead(NewRes, 200, "text/event-stream")
                       r1 == write(r0, Chunk(id, t, [role |-> "assistant", content |-> Str(c.value)], "null"))
                       r2 == write(r1, Chunk(id, t, EmptyDelta, "stop"))
                       r3 == write(r2, DoneEvent)
                   IN end(r3)
              ELSE end(write(writeHead(NewRes, 200, "application/json"),
                             Completion(id, t, [role |-> "assistant", content |-> Str(c.value)], "stop")))

(***************************************************************************)
(* State.                                                                  *)
(***************************************************************************)
VARIABLES
  server,          \* the program that runs: "part_001" or "server.js"
  pc,              \* per request: idle, reading, calling, done; crashed once its
                   \* handler has thrown, which ends the process
  body,            \* per request: the body, while its handler is at the agent call
  sent,            \* per request: what the agent was called with, during the call
  accepted,        \* per request: the handler's checks of the body passed
  invoked,         \* per request: the number of agent invocations
  running,         \* the request whose handler holds the thread, 0 if none
  now,             \* the latest reading of Date.now()
  callCounter,     \* let callCounter (src/unnamed/part_001:16)
  last,            \* the turn of a handler the latest step ended, if it ended one
  tmpDirs,         \* the requests whose agent call has a directory under os.tmpdir()
  exited,          \* the process has ended
  emittedCallIds,  \* the ids of the tool calls written to responses so far
  responseIds,     \* the chat-completion ids of the responses so far
  ptText,          \* the argument of a call of parseToolCalls on its own
  ptResult,        \* its result
  arg,             \* the arguments of a call of one of the other functions on its own
  ret              \* what the call returned

vars == <<server, pc, body, sent, accepted, invoked, running, now, callCounter, last,
          tmpDirs, exited, emittedCallIds, responseIds, ptText, ptResult, arg, ret>>

Reqs == 1..MaxReqs

NoTurn ==
  [req |-> 0, body |-> NoBody, sent |-> NoSent, outcome |-> NoOutcome, res |-> NewRes,
   counter |-> 0, invoked |-> 0, accepted |-> FALSE, threw |-> FALSE]

NoResult == [toolCalls |-> <<>>, contentText |-> <<>>, counter |-> -1]

NoArg == [fn |-> "none"]

NoRet == [fn |-> "none"]

InitServer ==
  /\ server \in {"part_001", "server.js"}
  /\ pc = [r \in Reqs |-> "idle"]
  /\ body = [r \in Reqs |-> NoBody]
  /\ sent = [r \in Reqs |-> NoSent]
  /\ accepted = [r \in Reqs |-> FALSE]
  /\ invoked = [r \in Reqs |-> 0]
  /\ running = 0
  /\ now = 0
  /\ callCounter = 0
  /\ last = NoTurn
  /\ tmpDirs = {}
  /\ exited = FALSE
  /\ emittedCallIds = <<>>
  /\ responseIds = <<>>

Init ==
  /\ InitServer
  /\ ptText = <<>>
  /\ ptResult = NoResult
  /\ arg = NoArg
  /\ ret = NoRet

\* the tool calls a written body carries
CallsOf(w) ==
  IF w.event = "json" /\ "message" \in DOMAIN w /\ "tool_calls" \in DOMAIN w.message
    THEN w.message.tool_calls
  ELSE IF w.event = "data" /\ "tool_calls" \in DOMAIN w.delta
    THEN w.delta.tool_calls
  ELSE <<>>

\* the ids of the tool calls a response carries, in the order written
CallIdsOf(res) ==
  LET calls == Flatten([i \in 1..Len(res.writes) |-> CallsOf(res.writes[i])])
  IN [i \in 1..Len(calls) |-> calls[i].id]

\* the chat-completion id of a response, if it carries one
ChatIdsOf(res) ==
  IF res.writes # <<>> /\ "id" \in DOMAIN res.writes[1] THEN <<res.writes[1].id>> ELSE <<>>

\* A handler has thrown: the promise of the async listener is rejected and
\* nothing handles the rejection (src/unnamed/part_001:374-380,
\* src/server.js:488-498).
Thrown == \E q \in Reqs : pc[q] = "crashed"

\* Node ends the process with exit code 1 when it comes to the unhandled
\* rejection, which it does once the callbacks of the tick have run: the
\* handlers of requests whose bodies ended in the same tick run before it.
Exit ==
  /\ Thrown
  /\ running = 0
  /\ ~exited
  /\ exited' = TRUE
  /\ last' = NoTurn
  /\ UNCHANGED <<server, pc, body, sent, accepted, invoked, running, now, callCounter,
                 tmpDirs, emittedCallIds, responseIds, ptText, ptResult, arg, ret>>

\* Accept as it would be if callbacks ran during an agent call, as they do
\* when the agent is spawned without blocking
Accept_duringCall(r) ==
  /\ pc[r] = "idle"
  /\ ~Thrown
  /\ pc' = [pc EXCEPT ![r] = "reading"]
  /\ last' = NoTurn
  /\ UNCHANGED <<server, body, sent, accepted, invoked, running, now, callCounter,
                 tmpDirs, exited, emittedCallIds, responseIds, ptText, ptResult, arg, ret>>

\* A client sends a request; the handler registers its listeners and waits
\* for the end of the body (src/unnamed/part_001:245-247, src/server.js:340-342).
\* No callback runs while an agent call blocks the thread, and no request
\* comes in between the throw of a handler and the end of the process.
Accept(r) ==
  /\ pc[r] = "idle"
  /\ running = 0
  /\ ~Thrown
  /\ pc' = [pc EXCEPT ![r] = "reading"]
  /\ last' = NoTurn
  /\ UNCHANGED <<server, body, sent, accepted, invoked, running, now, callCounter,
                 tmpDirs, exited, emittedCallIds, responseIds, ptText, ptResult, arg, ret>>

\* The 'end' event of the request: the body has been received in full and
\* the promise the handler awaits is resolved (src/unnamed/part_001:247,
\* src/server.js:342).  Nothing makes a client end its body.
BodyEnd(r) ==
  /\ pc[r] = "reading"
  /\ running = 0
  /\ ~exited
  /\ pc' = [pc EXCEPT ![r] = "ended"]
  /\ last' = NoTurn
  /\ UNCHANGED <<server, body, sent, accepted, invoked, running, now, callCounter,
                 tmpDirs, exited, emittedCallIds, responseIds, ptText, ptResult, arg, ret>>

\* The body b has ended and the handler runs up to the agent call, which blocks
\* the thread (execFileSync, execSync), or up to an early return or a throw.
Begin(r, b, begin) ==
  /\ pc[r] = "ended"
  /\ running = 0
  /\ ~exited
  /\ accepted' = [accepted EXCEPT ![r] = begin.accepted]
  /\ CASE begin.step = "send" ->
            /\ pc' = [pc EXCEPT ![r] = "done"]
            /\ last' = [req |-> r, body |-> b, sent |-> NoSent, outcome |-> NoOutcome,
                        res |-> send(NewRes, begin.code, begin.msg), counter |-> callCounter,
                        invoked |-> invoked[r], accepted |-> begin.accepted, threw |-> FALSE]
            /\ UNCHANGED <<body, sent, invoked, running>>
       [] begin.step = "throw" ->
            /\ pc' = [pc EXCEPT ![r] = "crashed"]
            /\ last' = [req |-> r, body |-> b, sent |-> NoSent, outcome |-> NoOutcome,
                        res |-> NewRes, counter |-> callCounter,
                        invoked |-> invoked[r], accepted |-> begin.accepted, threw |-> TRUE]
            /\ UNCHANGED <<body, sent, invoked, running>>
       [] begin.step = "call" ->
            /\ pc' = [pc EXCEPT ![r] = "calling"]
            /\ body' = [body EXCEPT ![r] = b]
            /\ sent' = [sent EXCEPT ![r] = begin.sent]
            /\ invoked' = [invoked EXCEPT ![r] = @ + 1]
            /\ running' = r
            /\ last' = NoTurn
  /\ UNCHANGED <<server, now, callCounter, exited, emittedCallIds, responseIds, ptText,
                 ptResult, arg, ret>>

\* The agent call has ended in outcome o and the handler has written res.
Finish(r, o, res, counter, t) ==
  /\ pc' = [pc EXCEPT ![r] = "done"]
  /\ body' = [body EXCEPT ![r] = NoBody]
  /\ sent' = [sent EXCEPT ![r] = NoSent]
  /\ running' = 0
  /\ now' = t
  /\ callCounter' = counter
  /\ last' = [req |-> r, body |-> body[r], sent |-> sent[r], outcome |-> o, res |-> res,
              counter |-> callCounter, invoked |-> invoked[r], accepted |-> accepted[r],
              threw |-> FALSE]
  /\ emittedCallIds' = emittedCallIds \o CallIdsOf(res)
  /\ responseIds' = responseIds \o ChatIdsOf(res)
  /\ UNCHANGED <<server, accepted, invoked, exited, ptText, ptResult, arg, ret>>

\* handleChat (src/unnamed/part_001:244-310), up to the agent call
handleChat_Begin(r) ==
  /\ server = "part_001"
  /\ \E b \in Bodies :
       /\ Begin(r, b, handleChat_begin(b))
       \* fs.mkdtempSync of callClaude (src/unnamed/part_001:205)
       /\ tmpDirs' = IF handleChat_begin(b).step = "call" THEN tmpDirs \cup {r} ELSE tmpDirs

\* handleChat, from the return of the agent call; O is the set of outcomes
\* of the call that are considered
handleChat_End(r, O) ==
  /\ server = "part_001"
  /\ pc[r] = "calling"
  /\ running = r
  /\ \E o \in O, d1 \in 0..1, d2 \in 0..1 :
       LET e == handleChat_end(o, body[r].stream, callCounter, now + d1, now + d1 + d2)
       IN /\ Finish(r, o, e.res, e.counter, now + d1 + d2)
          \* try { fs.rmSync(tmpDir, ...) } catch {} (src/unnamed/part_001:222,
          \* 233): the removal may fail, and the failure is swallowed
          /\ \E removed \in BOOLEAN :
               tmpDirs' = IF callClaude(o).rmSync /\ removed THEN tmpDirs \ {r} ELSE tmpDirs

\* handleChat when fs.mkdtempSync of callClaude throws: the catch of
\* handleChat answers with the message and the agent is not called
\* (src/unnamed/part_001:205, 294-309)
handleChat_NoTmpDir(r) ==
  /\ server = "part_001"
  /\ pc[r] = "ended"
  /\ running = 0
  /\ ~exited
  /\ \E b \in Bodies, d1 \in 0..1, d2 \in 0..1 :
       LET begin == handleChat_begin(b)
           e == handleChat_end(NoTmpDir, b.stream, callCounter, now + d1, now + d1 + d2)
       IN /\ begin.step = "call"
          /\ pc' = [pc EXCEPT ![r] = "done"]
          /\ accepted' = [accepted EXCEPT ![r] = begin.accepted]
          /\ now' = now + d1 + d2
          /\ last' = [req |-> r, body |-> b, sent |-> begin.sent, outcome |-> NoTmpDir,
                      res |-> e.res, counter |-> callCounter, invoked |-> invoked[r],
                      accepted |-> begin.accepted, threw |-> FALSE]
          /\ responseIds' = responseIds \o ChatIdsOf(e.res)
  /\ UNCHANGED <<server, body, sent, invoked, running, callCounter, tmpDirs, exited,
                 emittedCallIds, ptText, ptResult, arg, ret>>

\* handleChatCompletions (src/server.js:339-478), up to the agent call
handleChatCompletions_Begin(r) ==
  /\ server = "server.js"
  /\ \E b \in Bodies, writable \in BOOLEAN :
       Begin(r, b, handleChatCompletions_begin(b, writable))
  /\ UNCHANGED tmpDirs

\* handleChatCompletions, from the return of the agent call
handleChatCompletions_End(r, O) ==
  /\ server = "server.js"
  /\ pc[r] = "calling"
  /\ running = r
  /\ \E o \in O, d1 \in 0..1, d2 \in 0..1 :
       Finish(r, o,
              handleChatCompletions_end(o, sent[r], body[r].stream, now + d1, now + d1 + d2),
              callCounter, now + d1 + d2)
  /\ UNCHANGED tmpDirs

(***************************************************************************)
(* Spec: MaxReqs requests, accepted and served in any order.               *)
(***************************************************************************)
ReplyOutcomes == Outcomes({"a", "bad"}, MaxReplySegs)

Next ==
  \/ \E r \in Reqs : Accept(r)
  \/ \E r \in Reqs : BodyEnd(r)
  \/ Exit
  \/ \E r \in Reqs : handleChat_Begin(r)
  \/ \E r \in Reqs : handleChat_NoTmpDir(r)
  \/ \E r \in Reqs : handleChat_End(r, ReplyOutcomes)
  \/ \E r \in Reqs : handleChatCompletions_Begin(r)
  \/ \E r \in Reqs : handleChatCompletions_End(r, ReplyOutcomes)

Spec == Init /\ [][Next]_vars

(***************************************************************************)
(* SpecOne: one request, and every reply of at most MaxTurnSegs segments.  *)
(***************************************************************************)
AnyOutcomes == Outcomes(SegKinds, MaxTurnSegs)

NextOne ==
  \/ Accept(1)
  \/ BodyEnd(1)
  \/ Exit
  \/ handleChat_Begin(1)
  \/ handleChat_NoTmpDir(1)
  \/ handleChat_End(1, AnyOutcomes)
  \/ handleChatCompletions_Begin(1)
  \/ handleChatCompletions_End(1, AnyOutcomes)

SpecOne == Init /\ [][NextOne]_vars

(***************************************************************************)
(* SpecParse: parseToolCalls on its own, on every text of at most MaxLen   *)
(* tokens and every text of at most MaxSegs segments.                      *)
(***************************************************************************)
Texts == SeqsUpTo(Tokens, MaxLen) \cup {SegsText(ks) : ks \in SeqsUpTo(SegKinds, MaxSegs)}

InitParse ==
  /\ InitServer
  /\ ptText \in Texts
  /\ ptResult = NoResult
  /\ arg = NoArg
  /\ ret = NoRet

\* const { toolCalls, contentText } = parseToolCalls(result)
ParseToolCalls ==
  /\ ptResult = NoResult
  /\ LET p == parseToolCalls(ptText, callCounter)
     IN /\ ptResult' = p
        /\ callCounter' = p.counter
  /\ UNCHANGED <<server, pc, body, sent, accepted, invoked, running, now, last,
                 tmpDirs, exited, emittedCallIds, responseIds, ptText, arg, ret>>

NextParse == ParseToolCalls

SpecParse == InitParse /\ [][NextParse]_vars

(***************************************************************************)
(* What the claims speak of, stated on the text itself and not by the      *)
(* scan: the delimiter-enclosed spans of a text are found from the left,   *)
(* each from an opening delimiter to the first closing delimiter after it. *)
(***************************************************************************)
\* an opening delimiter starts a span when a closing delimiter follows it and
\* it does not lie inside a span that starts before it
SpanStarts(text) ==
  {i \in 1..Len(text) :
     /\ text[i] = OPEN
     /\ \E j \in (i + 1)..Len(text) : text[j] = CLOSE
     /\ \A h \in 1..(i - 1) : text[h] = OPEN => \E k \in (h + 1)..(i - 1) : text[k] = CLOSE}

\* the closing delimiter of the span that starts at i
SpanEnd(text, i) ==
  CHOOSE j \in (i + 1)..Len(text) :
    text[j] = CLOSE /\ \A k \in (i + 1)..(j - 1) : text[k] # CLOSE

\* the positions of a text that lie in a span
InSpans(text) ==
  {q \in 1..Len(text) : \E i \in SpanStarts(text) : i <= q /\ q <= SpanEnd(text, i)}

\* the span is well formed: between its delimiters there is, whitespace
\* apart, one JSON object with a name
WellFormed(text, i) ==
  LET inner == {k \in (i + 1)..(SpanEnd(text, i) - 1) : text[k] # WS}
  IN \E k \in inner : inner = {k} /\ text[k] \in {J_A, J_B}

GoodStarts(text) == {i \in SpanStarts(text) : WellFormed(text, i)}

BadStarts(text) == SpanStarts(text) \ GoodStarts(text)

\* the n-th element of a finite set of numbers, in increasing order
Nth(S, n) == CHOOSE x \in S : Cardinality({y \in S : y < x}) = n - 1

\* the name of the call in the well-formed span that starts at i
SpanName(text, i) ==
  LET k == CHOOSE k \in (i + 1)..(SpanEnd(text, i) - 1) : text[k] # WS
  IN IF text[k] = J_A THEN "A" ELSE "B"

\* the names of the well-formed calls of a text, in document order
GoodNames(text) ==
  [n \in 1..Cardinality(GoodStarts(text)) |-> SpanName(text, Nth(GoodStarts(text), n))]

\* the text without its spans and without the whitespace around what is left
Residual(text) ==
  LET keep == (1..Len(text)) \ InSpans(text)
      solid == {q \in keep : text[q] # WS}
      kept == {q \in keep : \E a \in solid, b \in solid : a <= q /\ q <= b}
  IN [n \in 1..Cardinality(kept) |-> text[Nth(kept, n)]]

(***************************************************************************)
(* C1.  For a reply text with N well-formed tool-call spans and M          *)
(* malformed ones, in any order, parseToolCalls returns exactly N calls,   *)
(* in the document order of their spans, and a residual contentText from   *)
(* which all N + M spans have been removed; a malformed span does not stop *)
(* the scan of the spans after it.                                         *)
(***************************************************************************)
C1_ParseToolCalls ==
  ptResult # NoResult =>
    /\ Len(ptResult.toolCalls) = Cardinality(GoodStarts(ptText))
    /\ [n \in 1..Len(ptResult.toolCalls) |-> ptResult.toolCalls[n].function.name]
         = GoodNames(ptText)
    /\ ptResult.contentText = Residual(ptText)

\* a text with two well-formed spans of different names and a malformed span
\* before the second of them has been parsed
C1_Witness ==
  /\ ptResult # NoResult
  /\ Cardinality(GoodStarts(ptText)) >= 2
  /\ GoodNames(ptText)[1] # GoodNames(ptText)[2]
  /\ \E i \in BadStarts(ptText), j \in GoodStarts(ptText) : i < j
  /\ Residual(ptText) # <<>>

(***************************************************************************)
(* The turn that has just ended.                                           *)
(***************************************************************************)
\* the handler of the program called the agent and the call has ended
TurnOf(prog) == server = prog /\ last.req # 0 /\ last.outcome.kind # "none"

\* the agent call returned
Replied == last.outcome.kind \in {"ok", "error", "raw"}

\* the text callClaude returned to the handler
LastResult ==
  IF server = "part_001" THEN callClaude(last.outcome).value
  ELSE callClaude_server(last.outcome, last.sent).value

\* the number of tool calls the reply holds for the parser
LastK == IF Replied THEN Cardinality(GoodStarts(LastResult)) ELSE 0

\* the content a response delivers: of the message, or of the first chunk
Delivered(res) ==
  IF res.writes[1].event = "json" THEN res.writes[1].message.content
  ELSE res.writes[1].delta.content

\* the names and the ids of a sequence of tool calls
NamesOf(calls) == [n \in 1..Len(calls) |-> calls[n].function.name]
IdsOf(calls) == [n \in 1..Len(calls) |-> calls[n].id]

\* the ids call_(c+1) .. call_(c+k)
IdsFrom(c, k) == [n \in 1..k |-> <<"call_", c + n>>]

(***************************************************************************)
(* C2.  The content delivered to the client is the parser's residual text: *)
(* when the reply holds delimiter-enclosed spans and none of them decodes  *)
(* to a call, the response content is the reply with every span removed,   *)
(* so that no malformed span reaches the client.                           *)
(***************************************************************************)
C2_ContentIsResidual ==
  (TurnOf("part_001") /\ Replied /\ SpanStarts(LastResult) # {} /\ LastK = 0) =>
    /\ Delivered(last.res) = Str(Residual(LastResult))
    /\ SpanStarts(Delivered(last.res).text) = {}

(***************************************************************************)
(* C3.  For a request that is not streamed, finish_reason is 'tool_calls'  *)
(* exactly when the parser yielded at least one call.  With K >= 1 calls   *)
(* the message carries the K calls in parser order and the residual text   *)
(* as content, null when the residual is empty; with no call the           *)
(* finish_reason is 'stop', the message has no tool_calls field and its    *)
(* content is the agent's text.                                            *)
(***************************************************************************)
C3_NonStreaming ==
  (TurnOf("part_001") /\ ~last.body.stream) =>
    /\ last.res.status = 200
    /\ Len(last.res.writes) = 1
    /\ LET w == last.res.writes[1] IN
       /\ w.event = "json"
       /\ w.object = "chat.completion"
       /\ (w.finish_reason = "tool_calls") <=> (LastK >= 1)
       /\ LastK >= 1 =>
            /\ "tool_calls" \in DOMAIN w.message
            /\ NamesOf(w.message.tool_calls) = GoodNames(LastResult)
            /\ IdsOf(w.message.tool_calls) = IdsFrom(last.counter, LastK)
            /\ w.message.content = IF Residual(LastResult) = <<>> THEN Null
                                   ELSE Str(Residual(LastResult))
       /\ LastK = 0 =>
            /\ w.finish_reason = "stop"
            /\ "tool_calls" \notin DOMAIN w.message
            /\ Replied => w.message.content = Str(LastResult)

\* a reply of two calls and nothing else has been answered, not streamed
C3_Witness ==
  /\ TurnOf("part_001")
  /\ ~last.body.stream
  /\ LastK = 2
  /\ BadStarts(LastResult) # {}
  /\ Residual(LastResult) = <<>>

(***************************************************************************)
(* C4.  A streamed response with K >= 1 tool calls is exactly: one content *)
(* chunk if and only if the residual text is not empty, then K chunks of   *)
(* one tool call each, in parser order, then one chunk with an empty delta *)
(* and finish_reason 'tool_calls', then the [DONE] sentinel.  Nothing is   *)
(* written after the sentinel, and every chunk before the terminal one has *)
(* finish_reason null.                                                     *)
(***************************************************************************)
C4_StreamToolCalls ==
  (TurnOf("part_001") /\ last.body.stream /\ LastK >= 1) =>
    LET ws == last.res.writes
        R == Residual(LastResult)
        c == IF R # <<>> THEN 1 ELSE 0
    IN /\ last.res.status = 200
       /\ last.res.ctype = "text/event-stream"
       /\ last.res.ended
       /\ Len(ws) = c + LastK + 2
       /\ \A n \in 1..(c + LastK + 1) : ws[n].event = "data"
       /\ c = 1 => /\ DOMAIN ws[1].delta = {"role", "content"}
                   /\ ws[1].delta.content = Str(R)
       /\ \A k \in 1..LastK :
            /\ DOMAIN ws[c + k].delta = {"tool_calls"}
            /\ Len(ws[c + k].delta.tool_calls) = 1
            /\ ws[c + k].delta.tool_calls[1].function.name = GoodNames(LastResult)[k]
            /\ ws[c + k].delta.tool_calls[1].id = <<"call_", last.counter + k>>
       /\ \A n \in 1..(c + LastK) : ws[n].finish_reason = "null"
       /\ DOMAIN ws[c + LastK + 1].delta = {}
       /\ ws[c + LastK + 1].finish_reason = "tool_calls"
       /\ ws[c + LastK + 2] = DoneEvent

\* a reply that is two calls of different names and no other text has been streamed
C4_Witness ==
  /\ TurnOf("part_001")
  /\ last.body.stream
  /\ LastK = 2
  /\ GoodNames(LastResult)[1] # GoodNames(LastResult)[2]
  /\ Residual(LastResult) = <<>>
  /\ last.res.ended

(***************************************************************************)
(* C5.  A streamed response without tool calls is exactly: one content     *)
(* chunk, then one chunk with an empty delta and finish_reason 'stop',     *)
(* then the [DONE] sentinel, and then the stream is closed; the chunks of  *)
(* one response share one id and one created timestamp.                    *)
(***************************************************************************)
C5_StreamNoToolCalls ==
  (/\ last.req # 0
   /\ last.body.stream
   /\ Replied
   /\ server = "part_001" => LastK = 0) =>
    LET ws == last.res.writes
    IN /\ last.res.status = 200
       /\ last.res.ctype = "text/event-stream"
       /\ Len(ws) = 3
       /\ ws[1].event = "data" /\ ws[2].event = "data"
       /\ DOMAIN ws[1].delta = {"role", "content"}
       /\ ws[1].delta.content = Str(LastResult)
       /\ ws[1].finish_reason = "null"
       /\ DOMAIN ws[2].delta = {}
       /\ ws[2].finish_reason = "stop"
       /\ ws[3] = DoneEvent
       /\ last.res.ended
       /\ ws[1].id = ws[2].id
       /\ ws[1].created = ws[2].created

\* a reply without tool calls has been streamed while the clock went on
\* between the two readings of the handler
C5_Witness ==
  /\ last.req # 0
  /\ last.body.stream
  /\ Replied
  /\ LastK = 0
  /\ LastResult # <<>>
  /\ last.res.ended
  /\ Len(last.res.writes) = 3
  /\ last.res.writes[1].id # ChatId(now)

\* no element of the sequence occurs in it twice
NoDup(seq) == \A i \in 1..Len(seq), j \in 1..Len(seq) : i # j => seq[i] # seq[j]

(***************************************************************************)
(* C6.  Tool-call ids do not collide: whatever the number of requests in   *)
(* flight and the order in which they are served, no two tool calls ever   *)
(* written by the process, in one response or in two, carry the same id;   *)
(* the global counter only increases, by one for each well-formed call.    *)
(***************************************************************************)
C6_CallIdsUnique ==
  /\ NoDup(emittedCallIds)
  /\ last.req # 0 =>
       callCounter = last.counter + (IF server = "part_001" THEN LastK ELSE 0)

\* the second of two responses with tool calls has been written, after a
\* reply with a malformed span
C6_Witness ==
  /\ TurnOf("part_001")
  /\ LastK >= 1
  /\ BadStarts(LastResult) # {}
  /\ Len(emittedCallIds) > LastK
  /\ \A r \in Reqs : pc[r] = "done"

(***************************************************************************)
(* C7.  Response ids do not collide and do not come from the wall clock    *)
(* alone: no two responses of the process carry the same chat-completion   *)
(* id, two responses made within one tick of the clock included.           *)
(***************************************************************************)
C7_ResponseIdsUnique == NoDup(responseIds)

(***************************************************************************)
(* C8.  A request whose body is not valid JSON, or whose messages field is *)
(* missing, is answered 400, and the agent is never invoked for it.        *)
(***************************************************************************)
C8_RejectedWith400 ==
  (last.req # 0 /\ last.body.kind \in {"badjson", "null", "nomsg"}) =>
    /\ last.res.status = 400
    /\ last.res.ended
    /\ last.invoked = 0

\* text sub occurs in text t
Contains(t, sub) ==
  \E i \in 0..(Len(t) - Len(sub)) : SubSeq(t, i + 1, i + Len(sub)) = sub

(***************************************************************************)
(* C9.  When the agent invocation times out or exits non-zero, the client  *)
(* still receives a well-formed chat completion through the normal channel *)
(* (a 200 JSON completion, or the normal chunk sequence when stream is     *)
(* set), whose content holds the error string, with finish_reason 'stop'.  *)
(***************************************************************************)
C9_FailureIsCompletion ==
  (last.req # 0 /\ last.outcome.kind \in {"timeout", "exit"}) =>
    LET ws == last.res.writes IN
    /\ last.res.status = 200
    /\ last.res.ended
    /\ ws # <<>>
    /\ "id" \in DOMAIN ws[1]
    /\ Delivered(last.res).type = "string"
    /\ Contains(Delivered(last.res).text, LastResult)
    /\ IF last.body.stream
         THEN /\ Len(ws) = 3
              /\ ws[1].object = "chat.completion.chunk"
              /\ ws[2].finish_reason = "stop"
              /\ ws[3] = DoneEvent
         ELSE /\ Len(ws) = 1
              /\ ws[1].object = "chat.completion"
              /\ ws[1].finish_reason = "stop"

(***************************************************************************)
(* C10.  Every request that is accepted (not rejected) triggers exactly    *)
(* one agent invocation: the agent is never called twice for a request,    *)
(* and no request is answered without an invocation.                       *)
(***************************************************************************)
C10_OneInvocation ==
  /\ \A r \in Reqs : invoked[r] <= 1
  /\ (last.req # 0 /\ last.res.status # 400) => last.invoked = 1

\* the conversation prompt of body b, as it is built without a skill
ConversationPrompt(b) ==
  IF server = "part_001" THEN formatConversation(b.messages)
  ELSE formatMessages(b.messages, FALSE)

(***************************************************************************)
(* C22.  When a skill is resolved and its instruction file cannot be read, *)
(* the injection of the skill is skipped: the prompt the agent is called   *)
(* with is exactly the conversation prompt, as it is built without the     *)
(* skill, and the request still completes with one invocation of the agent *)
(* and one response.                                                       *)
(***************************************************************************)
C22_UnreadableSkill ==
  /\ \A r \in Reqs :
       (pc[r] = "calling" /\ sent[r].skill # NoSkill) =>
         /\ sent[r].prompt = ConversationPrompt(body[r])
         /\ invoked[r] = 1
  /\ (last.req # 0 /\ last.sent.skill # NoSkill) =>
       /\ last.outcome # NoOutcome
       /\ last.sent.prompt = ConversationPrompt(last.body)
       /\ last.invoked = 1
       /\ last.res.ended /\ last.res.status # 0 /\ last.res.writes # <<>>
       /\ pc[last.req] = "done"

(***************************************************************************)
(* SpecClassify: isConversationalRequest on its own, on every user text of *)
(* at most MaxUserLen pieces and every text of at most MaxUserSegs         *)
(* segments.                                                               *)
(***************************************************************************)
UserPieces == {P_WA, P_SG, MID, WS, "Fix", "Hello", "profile", "?", LONG, "then"}

UserSegText(k) ==
  CASE k = "wa" -> <<P_WA, WS>>
    [] k = "sg" -> <<P_SG, WS>>
    [] k = "mid" -> <<MID, WS>>
    [] k = "fix" -> <<"Fix", WS>>
    [] k = "hello" -> <<"Hello", WS>>
    [] k = "q" -> <<"?">>
    [] k = "long" -> <<LONG, WS>>
    [] k = "profile" -> <<"profile", WS>>
    [] k = "then" -> <<"then">>
    [] k = "use" -> <<"use", WS, "a", WS, "skill", WS>>
    [] k = "useab" -> <<"use", WS, "a", "b", WS, WS, "skill">>
    [] k = "pull" -> <<"pull", WS, "request", WS>>
    [] k = "usef" -> <<"use", "\f", "a", "", "\f", "skill", WS>>

UserSegKinds ==
  {"wa", "sg", "mid", "fix", "hello", "q", "long", "profile", "then", "use", "useab", "pull",
   "usef"}

UserSegsText(ks) == Flatten([i \in 1..Len(ks) |-> UserSegText(ks[i])])

UserTexts ==
  SeqsUpTo(UserPieces, MaxUserLen)
    \cup {UserSegsText(ks) : ks \in SeqsUpTo(UserSegKinds, MaxUserSegs)}

\* a function of the program is about to be called on its own
InitFn(prog, args) ==
  /\ InitServer
  /\ server = prog
  /\ ptText = <<>>
  /\ ptResult = NoResult
  /\ arg \in args
  /\ ret = NoRet

\* the call returns value
Return(fn, value) ==
  /\ arg.fn = fn
  /\ ret = NoRet
  /\ ret' = [fn |-> fn, value |-> value]
  /\ UNCHANGED <<server, pc, body, sent, accepted, invoked, running, now, callCounter,
                 last, tmpDirs, exited, emittedCallIds, responseIds, ptText, ptResult, arg>>

InitClassify ==
  InitFn("server.js", {[fn |-> "isConversationalRequest", text |-> t] : t \in UserTexts})

\* const isConversational = isConversationalRequest(lastUserText)
IsConversationalRequest ==
  arg.fn = "isConversationalRequest"
    /\ Return("isConversationalRequest", isConversationalRequest(arg.text))

NextClassify == IsConversationalRequest

SpecClassify == InitClassify /\ [][NextClassify]_vars

(***************************************************************************)
(* What the claims on the classifier say of a text, read on its pieces:    *)
(* the words it holds as whole words, the forms it begins with, the piece  *)
(* it ends with.                                                           *)
(***************************************************************************)
\* piece i of t is a word on its own
WholeWord(t, i) == BoundaryBefore(t, i) /\ BoundaryAfter(t, i)

\* t holds a coding word, the words 'pull request', or 'use <word> skill'
CodingIntent(t) ==
  \E i \in 1..Len(t) :
    \/ t[i] \in {"fix", "file", "code", "bug"} /\ WholeWord(t, i)
    \/ /\ i + 2 <= Len(t) /\ BoundaryBefore(t, i) /\ BoundaryAfter(t, i + 2)
       /\ SubSeq(t, i, i + 2) = <<"pull", WS, "request">>
    \/ /\ t[i] = "use" /\ BoundaryBefore(t, i)
       /\ \E j \in (i + 2)..Len(t), k \in (i + 2)..Len(t), m \in (i + 4)..Len(t) :
            /\ j <= k /\ k + 1 <= m - 1
            /\ \A q \in (i + 1)..(j - 1) : t[q] \in SpaceChars
            /\ \A q \in j..k : t[q] \in Words
            /\ \A q \in (k + 1)..(m - 1) : t[q] \in SpaceChars
            /\ t[m] = "skill" /\ BoundaryAfter(t, m)

\* t begins with a greeting or a question form, or ends with a question mark
ConversationalForm(t) ==
  t # <<>> /\ (Head(t) \in {"hello", "hi", "why", "thanks"} \/ t[Len(t)] = "?")

\* t holds 'file' or 'code', as a word or inside one
HoldsFileOrCode(t) == \E i \in 1..Len(t) : t[i] \in {"file", "code", "profile"}

(***************************************************************************)
(* C12.  In the classifier the coding patterns are tested before the       *)
(* conversational ones: a text that, with its prefix stripped and in lower *)
(* case, matches a coding pattern is never classified conversational, even *)
(* when it begins with a greeting or ends with a question mark; a text     *)
(* that matches no coding pattern and matches a conversational pattern is  *)
(* conversational, whatever its length.                                    *)
(***************************************************************************)
C12_CodingFirst ==
  ret.fn = "isConversationalRequest" =>
    LET lower == classifierLower(arg.text)
    IN /\ CodingIntent(lower) => ret.value = FALSE
       /\ (~CodingIntent(lower) /\ ConversationalForm(lower)) => ret.value = TRUE

\* a text with a marker before a greeting, a coding word and a final question
\* mark has been classified
C12_Witness ==
  /\ ret.fn = "isConversationalRequest"
  /\ LET lower == classifierLower(arg.text)
     IN /\ arg.text # <<>> /\ lower # <<>>
        /\ Head(arg.text) = P_SG
        /\ Head(lower) = "hello"
        /\ lower[Len(lower)] = "?"
        /\ CodingIntent(lower)
        /\ ret.value = FALSE

(***************************************************************************)
(* C24.  When the text, with its prefix stripped and in lower case,        *)
(* matches neither a coding pattern nor a conversational pattern, the      *)
(* classifier falls back on length: the text is conversational if and only *)
(* if it is shorter than 50 characters and holds neither the substring     *)
(* 'file' nor the substring 'code'; otherwise it is coding.                *)
(***************************************************************************)
C24_LengthFallback ==
  ret.fn = "isConversationalRequest" =>
    LET lower == classifierLower(arg.text)
    IN (~CodingIntent(lower) /\ ~ConversationalForm(lower)) =>
         (ret.value <=> (length(lower) < 50 /\ ~HoldsFileOrCode(lower)))

\* a short text that matches no pattern and holds 'file' inside a word has
\* been classified as coding
C24_Witness ==
  /\ ret.fn = "isConversationalRequest"
  /\ LET lower == classifierLower(arg.text)
     IN /\ ~CodingIntent(lower) /\ ~ConversationalForm(lower)
        /\ length(lower) < 50
        /\ HoldsFileOrCode(lower)
        /\ ret.value = FALSE

(***************************************************************************)
(* SpecSkill: findMentionedSkill and findSkill on their own, on texts that *)
(* ask for a name in one of the forms the patterns know and on catalogs of *)
(* at most two skills.                                                     *)
(***************************************************************************)
\* every name of at most n name characters
NamesUpTo(n) == SeqsUpTo(NameChars, n) \ {<<>>}

\* names of four and five letters, a name with a capital, names with the
\* vendor prefix
OtherNames ==
  {<<"a", "a", "a", "a">>, <<"a", "a", "a", "a", "a">>, <<"a", "a", "a", "a", "b">>,
   <<"A", "b">>, <<CC>>, <<CC, "a">>, <<CC, "a", "-", "b">>}

SkillNames == NamesUpTo(MaxNameLen) \cup OtherNames

\* the names a text asks for
AskedNames == {n \in SkillNames : n # <<>> /\ Head(n) # CC}

\* the texts that ask for name x
AskTexts(x) ==
  {<<"use", WS>> \o x \o <<WS, "skill">>,
   x \o <<WS, "skill", WS, "to">>,
   <<"use", WS>> \o x \o <<WS, "to">>,
   <<"use", WS>> \o x \o <<WS, "skill", WS, "then", WS, "use", WS, "a", WS, "to">>,
   x}

SkillTexts == UNION {AskTexts(x) : x \in AskedNames}

\* the catalogs: the location of a skill is its place in the document
Catalogs ==
  {<<>>}
    \cup {<<[name |-> n, location |-> 1]>> : n \in SkillNames}
    \cup {<<[name |-> n1, location |-> 1], [name |-> n2, location |-> 2]>> :
            n1 \in NamesUpTo(MaxPairNameLen), n2 \in NamesUpTo(MaxPairNameLen)}
    \cup {<<[name |-> <<"a", "b">>, location |-> 1], [name |-> <<"a", "-", "b">>, location |-> 2]>>,
          <<[name |-> <<"a", "-", "b">>, location |-> 1], [name |-> <<"a", "b">>, location |-> 2]>>}

InitSkill ==
  \/ InitFn("server.js", {[fn |-> "findMentionedSkill", text |-> t, skills |-> c] :
                            t \in SkillTexts, c \in Catalogs})
  \/ InitFn("part_001", {[fn |-> "findSkill", text |-> t, skills |-> c] :
                           t \in SkillTexts, c \in Catalogs})

\* const mentionedSkill = findMentionedSkill(lastUserText, skills)
FindMentionedSkill ==
  arg.fn = "findMentionedSkill"
    /\ Return("findMentionedSkill", findMentionedSkill(arg.text, arg.skills))

\* const skill = findSkill(lastText, skills)
FindSkill == arg.fn = "findSkill" /\ Return("findSkill", findSkill(arg.text, arg.skills))

NextSkill == FindMentionedSkill \/ FindSkill

SpecSkill == InitSkill /\ [][NextSkill]_vars

\* a skill has been looked up
SkillReturned == ret.fn \in {"findMentionedSkill", "findSkill"}

\* the names captured from a text by the skill-invocation patterns
Captured(text) ==
  LET lower == toLowerCase(text)
  IN {m.group : m \in {m \in {MatchUseSkill(lower), MatchSkillTo(lower), MatchUseTo(lower)} :
                         m.found}}

\* the variants of a name, as a set
VariantSet(name) == {Variants(name)[i] : i \in 1..4}

\* name x equals a variant of the skill or agrees with one on four characters
MatchesByRule(skill, x) ==
  \E v \in VariantSet(skill.name) :
    \/ v = x
    \/ length(v) >= 4 /\ length(x) >= 4 /\ Substring4(v) = Substring4(x)

\* name x passes the test of the code against a variant of the skill
MatchesByCode(skill, x) == \E v \in VariantSet(skill.name) : VariantMatches(v, x)

(***************************************************************************)
(* C14.  Skill resolution returns a skill of the catalog only when the     *)
(* name captured from the text equals one of the variants of the skill's   *)
(* name (exact, without hyphens, with blanks for hyphens, without the      *)
(* vendor prefix) or agrees with a variant on a prefix of four characters; *)
(* when no skill of the catalog matches in this way, the empty catalog     *)
(* included, the result is null.                                           *)
(***************************************************************************)
C14_SkillOnlyByRule ==
  SkillReturned =>
    /\ ret.value # NoSkill =>
         \E x \in Captured(arg.text) : MatchesByRule(ret.value, x)
    /\ (\A i \in 1..Len(arg.skills), x \in Captured(arg.text) :
          ~MatchesByRule(arg.skills[i], x)) => ret.value = NoSkill

(***************************************************************************)
(* C15.  When the name asked for matches more than one skill of the        *)
(* catalog, the skill returned is the first that matches, in the order of  *)
(* the catalog: no skill is returned while a skill before it in the        *)
(* catalog matches the name too.                                           *)
(***************************************************************************)
C15_FirstInCatalog ==
  (SkillReturned /\ ret.value # NoSkill) =>
    \E x \in Captured(arg.text) :
      /\ MatchesByCode(ret.value, x)
      /\ \A j \in 1..(ret.value.location - 1) : ~MatchesByCode(arg.skills[j], x)

(***************************************************************************)
(* SpecFormat: formatMessages and formatConversation on their own, on      *)
(* every sequence of at most MaxMsgs messages of users and assistants.     *)
(***************************************************************************)
Contents == {<<"a">>, <<"b">>, <<MARKER>>, <<P_WA, WS, MARKER>>}

Messages == {[role |-> r, content |-> c] : r \in {"user", "assistant"}, c \in Contents}

\* a text of n times fifty characters
Fifties(n) == [i \in 1..n |-> LONG]

\* texts of 1, 300, 301 and 350 characters; the 300th character of the last
\* but one lies inside a piece
LongContents ==
  {<<"a">>, Fifties(6), Fifties(6) \o <<"a">>, <<"a">> \o Fifties(6), Fifties(7)}

LongMessages ==
  {[role |-> r, content |-> c] : r \in {"user", "assistant"}, c \in LongContents}

InitFormat ==
  \/ InitFn("server.js", {[fn |-> "formatMessages", messages |-> ms] :
                            ms \in SeqsUpTo(Messages, MaxMsgs)})
  \/ InitFn("server.js", {[fn |-> "formatMessages", messages |-> ms] :
                            ms \in SeqsUpTo(LongMessages, MaxLongMsgs)})
  \/ InitFn("part_001", {[fn |-> "formatConversation", messages |-> ms] :
                           ms \in SeqsUpTo(Messages, MaxMsgs)})

\* let prompt = formatMessages(cleanMessages, false)
FormatMessages ==
  arg.fn = "formatMessages" /\ Return("formatMessages", formatMessages(arg.messages, FALSE))

\* let prompt = formatConversation(messages)
FormatConversation ==
  arg.fn = "formatConversation"
    /\ Return("formatConversation", formatConversation(arg.messages))

NextFormat == FormatMessages \/ FormatConversation

SpecFormat == InitFormat /\ [][NextFormat]_vars


(***************************************************************************)
(* C17.  In formatMessages the question is the last exchange of the user,  *)
(* and the context is a bounded window: at most the last 3 exchanges       *)
(* before the question, those that come right before it, in their order;   *)
(* no exchange after the last exchange of the user and no exchange older   *)
(* than the window is in the prompt.                                       *)
(***************************************************************************)
C17_ContextWindow ==
  ret.fn = "formatMessages" =>
    LET E == Exchanges(arg.messages)
        q == LastUserIdx(E)
        from == IF q - 3 > 1 THEN q - 3 ELSE 1
    IN ret.value = IF q = 0 THEN <<>>
                   ELSE IF q = 1 THEN E[q].text
                   ELSE Framed(<<>>, SubSeq(E, from, q - 1), E[q].text)

RECURSIVE CharsOf(_)
\* the characters of a text, as one string
CharsOf(t) == IF t = <<>> THEN "" ELSE Head(t) \o CharsOf(Tail(t))

(***************************************************************************)
(* C23.  In formatMessages every context message longer than 300           *)
(* characters is in the prompt as its first 300 characters followed by     *)
(* '...', every context message of at most 300 characters is there in      *)
(* full, and the question is never cut, whatever its length.               *)
(***************************************************************************)
C23_ContextTruncation ==
  ret.fn = "formatMessages" =>
    LET E == Exchanges(arg.messages)
        q == LastUserIdx(E)
        from == IF q - ContextBack > 1 THEN q - ContextBack ELSE 1
        Shown(e) == IF Len(CharsOf(e.text)) > 300
                      THEN SubSeq(CharsOf(e.text), 1, 300) \o ELLIPSIS
                    ELSE CharsOf(e.text)
        Line(e) == <<IF e.role = "user" THEN "User: " ELSE "Assistant: ", Shown(e)>>
    IN /\ q = 1 => CharsOf(ret.value) = CharsOf(E[q].text)
       /\ q > 1 =>
            CharsOf(ret.value)
              = CharsOf(<<CONTEXT_HEAD>>
                          \o JoinLines([i \in 1..(q - from) |-> Line(E[from + i - 1])], <<NL>>)
                          \o <<QUESTION_HEAD>> \o E[q].text)

\* a prompt has been built of a context message of 301 characters, one of
\* 300 characters and a question of 350 characters
C23_Witness ==
  /\ ret.fn = "formatMessages"
  /\ Len(arg.messages) = 3
  /\ length(arg.messages[1].content) = 301
  /\ length(arg.messages[2].content) = 300
  /\ arg.messages[3] = [role |-> "user", content |-> Fifties(7)]
  /\ ELLIPSIS \in Pieces(ret.value)

(***************************************************************************)
(* C19.  A message whose normalized text (the platform prefix and the      *)
(* message-id tags stripped) begins with the history-compacted marker is   *)
(* dropped: nothing of it is in the prompt, as context or as the question; *)
(* every other message of a user that is not empty stays eligible.         *)
(***************************************************************************)
C19_CompactedDropped ==
  ret.fn \in {"formatMessages", "formatConversation"} =>
    LET ms == arg.messages
        Normalized(m) == IF ret.fn = "formatMessages" THEN stripPlatformPrefix(m.content)
                         ELSE stripPrefix(m.content)
        Dropped(m) == StartsWith(Normalized(m), <<MARKER>>)
        kept == {i \in 1..Len(ms) : ms[i].role = "user" /\ ~Dropped(ms[i])
                                      /\ Normalized(ms[i]) # <<>>}
    IN /\ (\A i \in 1..Len(ms) : MARKER \in Pieces(ms[i].content) => Dropped(ms[i]))
            => MARKER \notin Pieces(ret.value)
       /\ kept # {} =>
            LET i == CHOOSE i \in kept : \A j \in kept : j <= i
                n == Len(Normalized(ms[i]))
            IN IF ret.fn = "formatMessages"
                 THEN /\ Len(ret.value) >= n
                      /\ SubSeq(ret.value, Len(ret.value) - n + 1, Len(ret.value))
                           = Normalized(ms[i])
                 ELSE Contains(ret.value, <<"User: ">> \o Normalized(ms[i]))

(***************************************************************************)
(* SpecStrip: stripPlatformPrefix and stripPrefix on their own, on every   *)
(* text of at most MaxUserLen markers, tags, blanks and words.             *)
(***************************************************************************)
StripTexts == SeqsUpTo({P_WA, P_TG, P_SG, MID, WS, "hi"}, MaxUserLen)

InitStrip ==
  \/ InitFn("server.js", {[fn |-> "stripPlatformPrefix", text |-> t] : t \in StripTexts})
  \/ InitFn("part_001", {[fn |-> "stripPrefix", text |-> t] : t \in StripTexts})

\* const cleanText = m.role === 'user' ? stripPlatformPrefix(text) : text
StripPlatformPrefix ==
  arg.fn = "stripPlatformPrefix"
    /\ Return("stripPlatformPrefix", stripPlatformPrefix(arg.text))

\* parts.push(`User: ${stripPrefix(t)}`)
StripPrefix == arg.fn = "stripPrefix" /\ Return("stripPrefix", stripPrefix(arg.text))

NextStrip == StripPlatformPrefix \/ StripPrefix

SpecStrip == InitStrip /\ [][NextStrip]_vars

(***************************************************************************)
(* C18.  Prefix stripping is idempotent: for every user text, texts that   *)
(* begin with several platform markers in any order or hold several        *)
(* message-id tags included, the stripping function applied to its own     *)
(* output returns that output unchanged.                                   *)
(***************************************************************************)
C18_StripIdempotent ==
  /\ ret.fn = "stripPlatformPrefix" => stripPlatformPrefix(ret.value) = ret.value
  /\ ret.fn = "stripPrefix" => stripPrefix(ret.value) = ret.value

(***************************************************************************)
(* SpecModel: resolveModel on its own, on every requested name of at most  *)
(* MaxModelLen pieces and two configured defaults.                         *)
(***************************************************************************)
ModelPieces == {VENDOR, "code", "opus", "Opus", "sonnet", "haiku", "gpt", "3", "/"}

Defaults == {OPUS_MODEL, <<"custom">>}

InitModel ==
  InitFn("part_001", {[fn |-> "resolveModel", requested |-> m, default |-> d] :
                        m \in SeqsUpTo(ModelPieces, MaxModelLen), d \in Defaults})

\* const resolvedModel = resolveModel(requestedModel)
ResolveModel ==
  arg.fn = "resolveModel" /\ Return("resolveModel", resolveModel(arg.requested, arg.default))

NextModel == ResolveModel

SpecModel == InitModel /\ [][NextModel]_vars

\* the tiers a name holds
Tiers(name) == {"opus", "sonnet", "haiku"} \cap Pieces(toLowerCase(name))

\* the model of a tier
TierModel(tier) == IF tier = "opus" THEN OPUS_MODEL ELSE <<tier>>

(***************************************************************************)
(* C20.  Model resolution: a requested name that begins with the vendor    *)
(* prefix 'claude-' is passed to the agent unchanged; a name that holds    *)
(* the name of one of the three tiers is resolved to the model of the      *)
(* tier; an absent or unrecognised name is resolved to the configured      *)
(* default, and the request does not fail.                                 *)
(***************************************************************************)
C20_ResolveModel ==
  ret.fn = "resolveModel" =>
    LET name == arg.requested
    IN /\ StartsWith(toLowerCase(name), <<VENDOR>>) => ret.value = name
       /\ (~StartsWith(toLowerCase(name), <<VENDOR>>) /\ Tiers(name) # {}) =>
            \E tier \in Tiers(name) : ret.value = TierModel(tier)
       /\ (~StartsWith(toLowerCase(name), <<VENDOR>>) /\ Tiers(name) = {}) =>
            ret.value = arg.default

(***************************************************************************)
(* SpecDispatch: the dispatch of handleChatCompletions on its own, on      *)
(* message lists of at most MaxDispatchMsgs messages, with and without a   *)
(* system message, a persona and a readable skill file.                    *)
(***************************************************************************)
SkillAB == [name |-> <<"a", "b">>, location |-> 1]
SkillB == [name |-> <<"b">>, location |-> 2]

DispatchContents ==
  {<<"Hello">>,
   <<"Fix", WS, "bug">>,
   <<LONG>>,
   <<"use", WS, "a", "b", WS, "skill">>,
   <<"Hello", WS, "a", "b", WS, "skill", WS, "to", "?">>,
   <<P_WA, WS, "Hello">>,
   <<P_SG, WS, "Hello">>,
   <<P_WA>>,
   <<MARKER, WS, "Hello">>}

DispatchMessages ==
  {[role |-> "user", content |-> c] : c \in DispatchContents}
    \cup {[role |-> "assistant", content |-> c] : c \in {<<"Hello">>, <<"Fix", WS, "bug">>}}
    \cup {[role |-> "tool", content |-> <<"Hello">>]}

Systems ==
  {Null}
    \cup {[identity |-> i, soul |-> s, skills |-> c] :
            i \in {Null, Str(<<>>), Str(<<"I am Bot">>)},
            s \in {Null, [type |-> "section",
                          paragraphs |-> <<<<"p1">>, <<"p2">>, <<"p3">>, <<"p4">>>>]},
            c \in {<<>>, <<SkillAB>>, <<SkillB, SkillAB>>}}

Files ==
  {[n \in 1..2 |-> IF n = 1 THEN f ELSE Str(<<"Run b">>)] :
     f \in {Null, Str(<<>>), Str(<<"Run ", SKILL_ROOT, "/ab.sh">>)}}

InitDispatch ==
  InitFn("server.js",
         {[fn |-> "handleChatCompletions", messages |-> m, system |-> s, files |-> f] :
            m \in SeqsUpTo(DispatchMessages, MaxDispatchMsgs) \ {<<>>},
            s \in Systems, f \in Files})

\* handleChatCompletions up to the call of the agent: what callClaude is
\* called with, and the flag it puts on the command line
HandleChatCompletions ==
  /\ arg.fn = "handleChatCompletions"
  /\ LET d == Dispatch(arg.messages, arg.system, arg.files)
     IN Return("handleChatCompletions",
               [prompt |-> d.prompt, useTools |-> d.useTools, mode |-> d.mode,
                skill |-> d.skill, toolsFlag |-> toolsFlag(d.useTools)])

NextDispatch == HandleChatCompletions

SpecDispatch == InitDispatch /\ [][NextDispatch]_vars

\* the request has been dispatched
Dispatched == ret.fn = "handleChatCompletions"

\* the latest user message of the request
LatestUserText ==
  LET users == SelectSeq(arg.messages, LAMBDA m : m.role = "user")
  IN IF users = <<>> THEN <<>> ELSE users[Len(users)].content

\* the skill resolved from the latest user message
ResolvedSkill == findMentionedSkill(LatestUserText, extractSkills(arg.system))

(***************************************************************************)
(* C13.  Each request gets exactly one dispatch mode out of skill,         *)
(* conversational and coding, and skill has strict precedence: when a      *)
(* skill is resolved from the latest user message the mode is skill        *)
(* whatever the classifier says, and the prompt then holds neither the     *)
(* persona framing nor the task-execution prefix; otherwise the mode is    *)
(* conversational or coding as the classifier says.                        *)
(***************************************************************************)
C13_SkillPrecedence ==
  Dispatched =>
    /\ ret.value.mode \in {"skill", "conversational", "coding"}
    /\ ResolvedSkill # NoSkill =>
         /\ ret.value.mode = "skill"
         /\ PERSONA_FRAME \notin Pieces(ret.value.prompt)
         /\ EXECUTOR_PREFIX \notin Pieces(ret.value.prompt)
    /\ ResolvedSkill = NoSkill =>
         ret.value.mode = IF isConversationalRequest(LatestUserText) THEN "conversational"
                          ELSE "coding"

\* a request whose latest user message is a greeting that asks for a skill,
\* with a persona in the system message, has been dispatched as skill
C13_Witness ==
  /\ Dispatched
  /\ ResolvedSkill # NoSkill
  /\ isConversationalRequest(LatestUserText)
  /\ Truthy(extractPersona(arg.system))
  /\ ret.value.mode = "skill"

(***************************************************************************)
(* C16.  When the mode is conversational the agent is called with tool use *)
(* disabled and the prompt holds the persona framing instead of the        *)
(* task-execution prefix; when the mode is skill or coding the agent is    *)
(* called with tool use enabled.                                           *)
(***************************************************************************)
C16_ConversationalNoTools ==
  Dispatched =>
    /\ ret.value.mode = "conversational" =>
         /\ ~ret.value.useTools
         /\ ret.value.toolsFlag = ""
         /\ PERSONA_FRAME \in Pieces(ret.value.prompt)
         /\ EXECUTOR_PREFIX \notin Pieces(ret.value.prompt)
    /\ ret.value.mode \in {"skill", "coding"} =>
         /\ ret.value.useTools
         /\ ret.value.toolsFlag = "--tools default"

(***************************************************************************)
(* A response without what is generated per response: the chat-completion  *)
(* id, the creation time and the ids of the tool calls.                    *)
(***************************************************************************)
ScrubCalls(calls) == [n \in 1..Len(calls) |-> [calls[n] EXCEPT !.id = <<>>]]

ScrubWrite(w) ==
  LET w1 == IF "id" \in DOMAIN w THEN [w EXCEPT !.id = <<>>, !.created = 0] ELSE w
      w2 == IF "delta" \in DOMAIN w1 /\ "tool_calls" \in DOMAIN w1.delta
              THEN [w1 EXCEPT !.delta.tool_calls = ScrubCalls(w1.delta.tool_calls)]
            ELSE w1
  IN IF "message" \in DOMAIN w2 /\ "tool_calls" \in DOMAIN w2.message
       THEN [w2 EXCEPT !.message.tool_calls = ScrubCalls(w2.message.tool_calls)]
     ELSE w2

Scrub(res) == [res EXCEPT !.writes = [i \in 1..Len(res.writes) |-> ScrubWrite(res.writes[i])]]

\* what the handler of the program that runs does with body b before the
\* agent call, whatever the state of the server
FreshBegin(b) ==
  IF server = "part_001" THEN handleChat_begin(b) ELSE handleChatCompletions_begin(b, TRUE)

\* the response of the handler to outcome o in a server that has just
\* started: callCounter is 0 and the clock reads 0
FreshEnd(o, stream) ==
  IF server = "part_001" THEN handleChat_end(o, stream, 0, 0, 0).res
  ELSE handleChatCompletions_end(o, handleChatCompletions_begin(last.body, TRUE).sent,
                                 stream, 0, 0)

(***************************************************************************)
(* C11.  The server is stateless across requests: in every sequence and    *)
(* interleaving of requests, what the agent is called with for a request   *)
(* (prompt, system prompt, tool use, dispatch mode) and the response of    *)
(* the request, its generated ids and timestamps apart, are what a server  *)
(* that has just started gives for the same body and the same agent reply. *)
(***************************************************************************)
C11_Stateless ==
  /\ \A r \in Reqs : pc[r] = "calling" => sent[r] = FreshBegin(body[r]).sent
  /\ (last.req # 0 /\ last.outcome # NoOutcome) =>
       /\ last.sent = FreshBegin(last.body).sent
       /\ Scrub(last.res) = Scrub(FreshEnd(last.outcome, last.body.stream))
  /\ (last.req # 0 /\ last.outcome = NoOutcome /\ ~last.threw) =>
       last.res = send(NewRes, FreshBegin(last.body).code, FreshBegin(last.body).msg)

\* a streamed request has been answered with tool calls after an earlier
\* request had taken call ids and the clock had advanced: its response
\* differs from the one of a server that has just started
C11_Witness ==
  /\ last.req # 0
  /\ last.outcome.kind = "ok"
  /\ last.counter > 0
  /\ last.body.stream
  /\ last.sent.prompt # <<>>
  /\ CallIdsOf(last.res) # <<>>
  /\ last.res # FreshEnd(last.outcome, last.body.stream)

(***************************************************************************)
(* SpecChat: handleChat of part_001 from the extraction of the system      *)
(* prompt to the call of the agent, on its own, on requests of at most     *)
(* MaxChatMsgs messages and MaxTools tools, with and without a system      *)
(* message, a catalog of skills and a readable skill file.                 *)
(***************************************************************************)
ChatMessages ==
  {[role |-> "user", content |-> c] :
     c \in {<<"Hello">>, <<"use", WS, "a", "b", WS, "skill">>, <<P_SG, WS, "Hello">>}}
    \cup {[role |-> "assistant", content |-> <<"Hello">>],
          [role |-> "tool", content |-> <<"Hello">>, tool_call_id |-> <<"call_1">>],
          [role |-> "tool", content |-> <<"Hello">>, tool_call_id |-> <<>>]}

ChatSystems ==
  {Null,
   [text |-> <<>>, skills |-> <<>>],
   [text |-> <<"You are Bot">>, skills |-> <<>>],
   [text |-> <<"You are Bot", "<skill>", "a", "b", "</skill>">>, skills |-> <<SkillAB>>]}

ToolDefs ==
  {[name |-> "bash", description |-> "", parameters |-> <<>>],
   [name |-> "read", description |-> "Read a file",
    parameters |-> <<[key |-> "path", type |-> "string", required |-> TRUE,
                      description |-> "the path"]>>],
   [name |-> "ls", description |-> "",
    parameters |-> <<[key |-> "dir", type |-> "", required |-> FALSE, description |-> ""]>>]}

ToolSets == {Null} \cup {Array(ts) : ts \in SeqsUpTo(ToolDefs, MaxTools)}

InitChat ==
  InitFn("part_001",
         {[fn |-> "handleChat", messages |-> m, system |-> s, tools |-> t, files |-> f] :
            m \in SeqsUpTo(ChatMessages, MaxChatMsgs) \ {<<>>},
            s \in ChatSystems, t \in ToolSets, f \in Files})

\* handleChat up to the call of the agent: what callClaude is called with
HandleChat ==
  /\ arg.fn = "handleChat"
  /\ Return("handleChat", handleChat_args(arg.messages, arg.system, arg.tools, arg.files))

NextChat == HandleChat

SpecChat == InitChat /\ [][NextChat]_vars

\* the caller has supplied at least one tool
ToolsSupplied == arg.tools # Null /\ arg.tools.items # <<>>

(***************************************************************************)
(* C21.  Whenever the caller supplies at least one tool definition, the    *)
(* tool menu of formatToolsForPrompt is part of the system prompt passed   *)
(* to the agent for the request, and it is never in the user prompt; when  *)
(* the caller supplies no tools (absent or empty list) no tool section is  *)
(* emitted.                                                                *)
(***************************************************************************)
C21_ToolMenuInSystem ==
  ret.fn = "handleChat" =>
    /\ ToolsSupplied =>
         /\ ret.value.system # Null
         /\ Contains(ret.value.system.text, formatToolsForPrompt(arg.tools))
    /\ TOOLS_HEAD \notin Pieces(ret.value.prompt)
    /\ ~ToolsSupplied =>
         (ret.value.system = Null \/ TOOLS_HEAD \notin Pieces(ret.value.system.text))

\* the exchanges of the request, and whether the question is the only one
DispatchExchanges ==
  Exchanges(SelectSeq(arg.messages, LAMBDA m : m.role \in {"user", "assistant"}))

SingleExchange == Len(DispatchExchanges) = 1 /\ DispatchExchanges[1].role = "user"

\* the prompt starts with the executor prefix exactly in coding mode, and
\* the prefix is in no prompt of another mode
PrefixOnlyInCoding ==
  /\ (ret.value.prompt # <<>> /\ Head(ret.value.prompt) = EXECUTOR_PREFIX)
       <=> (ResolvedSkill = NoSkill /\ ~isConversationalRequest(LatestUserText))
  /\ ret.value.mode \in {"skill", "conversational"} =>
       EXECUTOR_PREFIX \notin Pieces(ret.value.prompt)

(***************************************************************************)
(* C25.  The task-execution prefix is added to the prompt only in coding   *)
(* mode: the prompt sent to the agent starts with the executor prefix if   *)
(* and only if no skill was resolved and the latest user text was          *)
(* classified as not conversational; in skill mode and in conversational   *)
(* mode, with or without a persona, the prefix is absent; and when the     *)
(* conversation has a single exchange the prompt is the question alone,    *)
(* that optional prefix apart.                                             *)
(***************************************************************************)
C25_PrefixOnlyInCoding ==
  Dispatched =>
    /\ PrefixOnlyInCoding
    /\ SingleExchange =>
         ret.value.prompt \in {DispatchExchanges[1].text,
                               <<EXECUTOR_PREFIX>> \o DispatchExchanges[1].text}

(***************************************************************************)
(* C25, amended.  The same, but with a single exchange the prompt is the   *)
(* question alone, the optional prefix apart, only where nothing is        *)
(* injected: with a persona in conversational mode the question stands     *)
(* inside the persona framing, and in skill mode with a readable file      *)
(* inside the skill instructions; no prompt of a single exchange holds the *)
(* framing of a context.                                                   *)
(***************************************************************************)
C25_PrefixOnlyInCoding_Amended ==
  Dispatched =>
    /\ PrefixOnlyInCoding
    /\ SingleExchange =>
         LET question == DispatchExchanges[1].text
             persona == extractPersona(arg.system)
             content == IF ResolvedSkill # NoSkill
                          THEN readSkillFile(arg.files, ResolvedSkill.location) ELSE Null
         IN /\ CONTEXT_HEAD \notin Pieces(ret.value.prompt)
            /\ ret.value.prompt
                 = CASE ret.value.mode = "coding" -> <<EXECUTOR_PREFIX>> \o question
                     [] ret.value.mode = "conversational" ->
                          IF Truthy(persona)
                            THEN persona.text \o <<PERSONA_FRAME>> \o question
                          ELSE question
                     [] ret.value.mode = "skill" ->
                          IF Truthy(content)
                            THEN <<SKILL_HEAD>> \o ResolvedSkill.name \o <<SKILL_OPEN>>
                                   \o content.text \o <<SKILL_REQUEST>> \o question
                                   \o <<SKILL_TAIL>>
                          ELSE question

\* a conversational request of one exchange has been dispatched without the
\* prefix, and so has one with a persona, inside the persona framing
C25_Witness ==
  /\ Dispatched
  /\ SingleExchange
  /\ ret.value.mode = "conversational"
  /\ Truthy(extractPersona(arg.system))
  /\ PERSONA_FRAME \in Pieces(ret.value.prompt)
  /\ EXECUTOR_PREFIX \notin Pieces(ret.value.prompt)


(***************************************************************************)
(* C29.  The user message that is classified for the mode and searched for *)
(* a skill is the message that stands as the question in the prompt, in    *)
(* the same normalized form, for every message list: also when the last    *)
(* user message is a compaction notice, is empty once stripped, or starts  *)
(* with a platform prefix.                                                 *)
(***************************************************************************)
C29_ClassifiedIsQuestion ==
  Dispatched =>
    LET q == LastUserIdx(DispatchExchanges)
    IN q # 0 =>
         /\ stripPlatformPrefix(LatestUserText) = DispatchExchanges[q].text
         /\ classifierLower(LatestUserText) = Trim(toLowerCase(DispatchExchanges[q].text))
         /\ ret.value.mode
              = Mode(findMentionedSkill(DispatchExchanges[q].text, extractSkills(arg.system)),
                     isConversationalRequest(DispatchExchanges[q].text))


\* the requests whose agent invocation is in flight
InFlight == {r \in Reqs : pc[r] = "calling"}

\* a step taken while request r is at its agent call is the rest of the
\* handler of r, which writes the response of r, and touches no other request
OnlyFinishes(r) ==
  /\ pc'[r] = "done"
  /\ running' = 0
  /\ last'.req = r /\ last'.res.ended
  /\ \A q \in Reqs \ {r} :
       /\ pc'[q] = pc[q]
       /\ body'[q] = body[q]
       /\ accepted'[q] = accepted[q]
       /\ invoked'[q] = invoked[q]

(***************************************************************************)
(* C26.  At most one agent invocation is in flight at a time: the agent    *)
(* call is synchronous, so from the moment a request starts to build its   *)
(* prompt until its response is written no step of the handler of another  *)
(* request is taken; requests accepted concurrently are served strictly    *)
(* one after another, and the ids of the tool calls of one response are    *)
(* consecutive values of the counter.                                      *)
(***************************************************************************)
C26_OneAtATime ==
  /\ [](/\ Cardinality(InFlight) <= 1
        /\ InFlight = IF running = 0 THEN {} ELSE {running}
        /\ TurnOf("part_001") => CallIdsOf(last.res) = IdsFrom(last.counter, LastK))
  /\ [][running # 0 => OnlyFinishes(running)]_vars

\* a response with two tool calls has been written for one of two requests
\* accepted together, while the other waits for the end of its body
C26_Witness ==
  /\ TurnOf("part_001")
  /\ LastK >= 2
  /\ \E q \in Reqs \ {last.req} : pc[q] = "reading"

(***************************************************************************)
(* C28.  Every directory that callClaude makes under the temporary         *)
(* directory is removed before callClaude returns or throws: when the      *)
(* agent succeeds, when its output cannot be parsed, and when it times out *)
(* or exits non-zero; after any sequence of requests no directory of a     *)
(* completed invocation remains.                                           *)
(***************************************************************************)
C28_TmpDirsRemoved ==
  /\ tmpDirs \subseteq InFlight
  /\ server = "part_001" => InFlight \subseteq tmpDirs
  /\ last.req # 0 => last.req \notin tmpDirs

(***************************************************************************)
(* SpecLive: the requests of Spec under the fairness that the event loop   *)
(* gives.  Once the body of a request has ended, the rest of its handler   *)
(* up to the agent call is a callback that runs when the thread is free,   *)
(* and the process ends once a rejection is left unhandled.  Nothing makes *)
(* a client send a request or end its body, and nothing makes the agent    *)
(* call return: execFileSync and execSync wait for the child to exit       *)
(* (src/unnamed/part_001:219, src/server.js:311), and a child that ignores *)
(* the signal sent at the timeout never does.                              *)
(***************************************************************************)
Resume ==
  \E r \in Reqs :
    \/ handleChat_Begin(r)
    \/ handleChat_NoTmpDir(r)
    \/ handleChatCompletions_Begin(r)

Fairness == WF_vars(Resume) /\ WF_vars(Exit)

SpecLive == Init /\ [][Next]_vars /\ Fairness

(***************************************************************************)
(* C27.  Every chat-completions request whose body has been received in    *)
(* full is eventually answered, and answered exactly once, whatever the    *)
(* body: invalid JSON, no messages, empty messages, messages that are not  *)
(* an array, an agent that succeeds or fails.  Each turn of a handler ends *)
(* with exactly one terminal write, never none and never two.              *)
(***************************************************************************)
C27_AnsweredOnce ==
  /\ \A r \in Reqs : (pc[r] = "ended") ~> (pc[r] = "done")
  /\ [][\A r \in Reqs :
          last'.req = r =>
            /\ pc[r] # "done" /\ pc'[r] = "done"
            /\ last'.res.ended /\ last'.res.status # 0 /\ last'.res.writes # <<>>]_vars
====
